---- MODULE Spec2Model ----
(***************************************************************************)
(* z/VM compute driver (nova_zvm/virt/zvm/driver.py): spawn orchestration, *)
(* the NIC-readiness wait, the host-status refresh and the instance status *)
(* query, modelled against an opaque SDK gateway.                          *)
(*                                                                         *)
(* Every remote call goes through zVMSDKRequestHandler.call                *)
(* (utils.py:79-89): it returns the output when overallRC = 0 and raises   *)
(* ZVMSDKRequestFailed carrying the results otherwise.  The gateway itself *)
(* is outside the repository; its answers are nondeterministic, drawn from *)
(* the gateway state kept in guests, gw_images, nic_vsw and nic_cpl, which *)
(* the driver's own calls and the network agent change.                    *)
(***************************************************************************)
EXTENDS Integers, Sequences, FiniteSets, TLC

VARIABLES
    spawn,        \* per spawn invocation: position, arguments, locals, call log
    guests,       \* gateway: the guest names guest_list returns
    gw_images,    \* gateway: the images image_query resolves
    gw_nics,      \* gateway: per guest, the NIC ids created by guest_create_network_interface
    nic_vsw,      \* gateway: per guest, the mapping guest_get_nic_vswitch_info returns
    nic_cpl,      \* gateway: per guest, the NICs whose definition reports nic_coupled
    image_files,  \* compute node: images already downloaded under zvm_image_tmp_path
    imageop_semaphore,  \* ZVMDriver._imageop_semaphore counter
    now,          \* timeutils.utcnow(), in seconds
    zvm_reachable_timeout,  \* CONF.zvm_reachable_timeout
    instances,    \* compute manager: the instances spawn may be called for
    host_info,    \* gateway: the payload host_get_info returns
    host_stats,   \* ZVMDriver._host_stats
    init,         \* ZVMDriver.__init__: the locals of its retry loop
    refreshed,    \* the list the latest successful update_host_status returned
    reply         \* outcome of the latest call of a query entry point

vars == <<spawn, guests, gw_images, gw_nics, nic_vsw, nic_cpl, image_files,
          imageop_semaphore, now, zvm_reachable_timeout, instances,
          host_info, host_stats, init, refreshed, reply>>

gwVars == <<guests, gw_images, gw_nics, nic_vsw, nic_cpl>>
nicVars == <<gw_nics, nic_vsw, nic_cpl>>
confVars == <<now, zvm_reachable_timeout>>
hostVars == <<host_info, host_stats, init, refreshed, reply>>
spawnVars == <<spawn, gwVars, image_files, imageop_semaphore, confVars, instances>>

----------------------------------------------------------------------------
(* Bounds of the model *)

MaxTicks == 3          \* poll ticks explored per readiness wait
MaxInitFailures == 6   \* failed update_host_status calls explored in __init__

(* Program constants *)

MaxNameLen == 8      \* driver.py:134
Interval == 10       \* driver.py:277
NotFoundRC == 404    \* driver.py:151

(* Input domains *)

Procs == {"s1", "s2"}
Names == {"test0001", "test00002"}
Images == {"img1", "img2"}
RootGbs == {0, 3}
NicIds == {"n1", "n2"}
NetworkInfos == {<< >>, <<"n1">>, <<"n1", "n2">>}
Ephemerals ==
    {<< >>, <<[size |-> 1, guest_format |-> "ext3"],
              [size |-> 2, guest_format |-> ""]>>}   \* "" stands for None
Timeouts == {0, 10}
Lateness == {0, 1}   \* seconds a tick may start after its due time
Switches == {"", "VSW1"}
PowerTokens == {"on", "off", "unknown"}
PowerStates == {"NOSTATE", "RUNNING", "PAUSED", "SHUTDOWN"}
OtherRCs == {500}

Range(f) == {f[k] : k \in DOMAIN f}
EmptyMap == [k \in {} |-> ""]

----------------------------------------------------------------------------
(* Errors.  An error value records the exception class, the step that      *)
(* raised it and, for a gateway failure, results['overallRC'].             *)

NoError == [type |-> "none", op |-> "", rc |-> 0]
Err(type, op, rc) == [type |-> type, op |-> op, rc |-> rc]
ZVMSDKRequestFailed(op, rc) == Err("ZVMSDKRequestFailed", op, rc)
ZVMNetworkError == Err("ZVMNetworkError", "_wait_network_ready", 0)
InvalidInput == Err("InvalidInput", "spawn", 0)

(* The exception classes deriving from ZVMBaseException                    *)
(* (nova_zvm/virt/zvm/exception.py).                                       *)
ZVMBaseException ==
    {"ZVMSDKRequestFailed", "ZVMNetworkError", "ZVMConfigDriveError"}

(* zVMSDKRequestHandler.call (utils.py:79-89) for a request the gateway    *)
(* answered with overallRC = rc: the output is returned when rc = 0,       *)
(* ZVMSDKRequestFailed carrying the results is raised otherwise.           *)
call(op, rc) ==
    IF rc = 0 THEN [ok |-> TRUE, err |-> NoError]
    ELSE [ok |-> FALSE, err |-> ZVMSDKRequestFailed(op, rc)]

----------------------------------------------------------------------------
(* Host status: ZVMDriver.update_host_status and the cached _host_stats *)

(* A host_get_info payload (the keys read at driver.py:382-397) *)
HostInfo(memory_mb, memory_mb_used, ipl_time, hypervisor_hostname) ==
    [vcpus |-> 10, vcpus_used |-> 10, cpu_info |-> "s390x",
     disk_total |-> 406105, disk_used |-> 367263, disk_available |-> 38842,
     memory_mb |-> memory_mb, memory_mb_used |-> memory_mb_used,
     hypervisor_type |-> "zvm", hypervisor_version |-> "630",
     hypervisor_hostname |-> hypervisor_hostname, ipl_time |-> ipl_time]

(* The payloads the gateway may return: used memory below zero, within and *)
(* above the total, no memory at all, a later IPL time, and a payload      *)
(* without a host name.                                                    *)
HostInfos ==
    {HostInfo(8, u, "IPL at 03/13/14", "fakenode") : u \in {-2, 3, 10}}
       \cup {HostInfo(0, 0, "IPL at 03/13/14", "fakenode"),
             HostInfo(8, 3, "IPL at 04/01/14", "fakenode"),
             HostInfo(8, 3, "IPL at 03/13/14", "None")}

(* faulty variant: disk_used and disk_available are exchanged *)
HostData_DisksSwapped(info) ==
    [host |-> "CONF.host", allowed_vm_type |-> "const.ALLOWED_VM_TYPE",
     vcpus |-> info.vcpus, vcpus_used |-> info.vcpus_used,
     cpu_info |-> info.cpu_info, disk_total |-> info.disk_total,
     disk_used |-> info.disk_available, disk_available |-> info.disk_used,
     host_memory_total |-> info.memory_mb,
     host_memory_free |-> info.memory_mb - info.memory_mb_used,
     hypervisor_type |-> info.hypervisor_type,
     hypervisor_version |-> info.hypervisor_version,
     hypervisor_hostname |-> info.hypervisor_hostname,
     supported_instances |->
        <<"const.ARCHITECTURE", "const.HYPERVISOR_TYPE", "VMMode.HVM">>,
     ipl_time |-> info.ipl_time]

(* driver.py:380-397: the data dict built from the payload *)
HostData(info) ==
    [host |-> "CONF.host", allowed_vm_type |-> "const.ALLOWED_VM_TYPE",
     vcpus |-> info.vcpus, vcpus_used |-> info.vcpus_used,
     cpu_info |-> info.cpu_info, disk_total |-> info.disk_total,
     disk_used |-> info.disk_used, disk_available |-> info.disk_available,
     host_memory_total |-> info.memory_mb,
     host_memory_free |-> info.memory_mb - info.memory_mb_used,
     hypervisor_type |-> info.hypervisor_type,
     hypervisor_version |-> info.hypervisor_version,
     hypervisor_hostname |-> info.hypervisor_hostname,
     supported_instances |->
        <<"const.ARCHITECTURE", "const.HYPERVISOR_TYPE", "VMMode.HVM">>,
     ipl_time |-> info.ipl_time]

(* faulty variant: a free memory below zero is reported as 0 *)
update_host_status_FreeClamped(rc, info) ==
    LET r == call("host_get_info", rc)
        data == HostData(info)
    IN  [ok |-> r.ok, err |-> r.err,
         calls |-> <<<<"host_get_info", IF r.ok THEN "ok" ELSE "fail">>>>,
         caps |-> IF r.ok
                  THEN <<[data EXCEPT !.host_memory_free =
                                         IF @ < 0 THEN 0 ELSE @]>>
                  ELSE << >>]

(* faulty variant: a failed host_get_info is swallowed and an empty list   *)
(* returned                                                                *)
update_host_status_Swallow(rc, info) ==
    LET r == call("host_get_info", rc)
    IN  [ok |-> TRUE, err |-> NoError,
         calls |-> <<<<"host_get_info", IF r.ok THEN "ok" ELSE "fail">>>>,
         caps |-> IF r.ok THEN <<HostData(info)>> ELSE << >>]

(* driver.py:369-401: update_host_status for a host_get_info request the   *)
(* gateway answered with overallRC = rc and the payload info: one call, a  *)
(* one-element list on success, the gateway failure raised otherwise.  No  *)
(* attribute of the driver is assigned.                                    *)
update_host_status(rc, info) ==
    LET r == call("host_get_info", rc)
    IN  [ok |-> r.ok, err |-> r.err,
         calls |-> <<<<"host_get_info", IF r.ok THEN "ok" ELSE "fail">>>>,
         caps |-> IF r.ok THEN <<HostData(info)>> ELSE << >>]

(* driver.py:68-73: the locals of __init__ before its retry loop; slept    *)
(* records the time.sleep calls made so far                                *)
InitLocals ==
    [inc_slp |-> <<5, 10, 20, 30, 60>>, slp |-> 5, slept |-> << >>,
     done |-> FALSE]

(* No query entry point has been called yet.  A reply records the entry    *)
(* point, its arguments (name, previous: instance['power_state']), the     *)
(* gateway requests it issued with the overallRC and the token answered,   *)
(* the exception raised or the value returned, and in stats the list from  *)
(* the latest successful update_host_status as of the call.                *)
NoReply ==
    [op |-> "none", name |-> "", previous |-> "", rc |-> 0, calls |-> << >>,
     token |-> "", err |-> NoError, stats |-> << >>, value |-> << >>,
     requests |-> << >>]            \* the mutating requests sent, with
                                    \* their arguments

----------------------------------------------------------------------------
(* Spawn invocation state *)

InitSpawn ==
    [pc |-> "idle", name |-> "", root_gb |-> 0, network_info |-> << >>,
     ephemerals |-> << >>, image |-> "",
     calls |-> << >>,               \* <<step, "ok" | "fail">> in issue order,
                                    \* the queries of the wait excepted
     first_query |-> "none",        \* outcome of the first image_query
     orig |-> NoError,              \* exception caught at driver.py:210
     raised |-> NoError,            \* exception that left spawn
     listed |-> "none",             \* did guest_list in destroy hold the name
     expiration |-> 0, ticks |-> 0,
     wait |-> "none",               \* none | POLL | DONE | FAILED
     tick_now |-> 0,                \* utcnow() at the start of the current tick
     tick_calls |-> << >>,          \* gateway queries issued in the current tick
     switch_dict |-> [ok |-> FALSE, out |-> EmptyMap],
     def_res |-> EmptyMap,          \* this tick's definition-info answers
     pending |-> {},                \* keys of switch_dict still to query
     spawn_image_name |-> "",       \* resp[0][0] of the second image_query
     size_query |-> "",             \* argument of image_get_root_disk_size
     root_disk_size |-> "",
     disk_list |-> << >>]           \* last argument of guest_create

Logged(s, op, res) == [s EXCEPT !.calls = Append(@, <<op, res>>)]

(* faulty variant: the tick sends guest_start where it should query *)
Polled_Starts(s, op, res) ==
    [s EXCEPT !.tick_calls = Append(@, <<"guest_start", res>>)]

(* the queries of a poll tick are kept for the current tick only *)
Polled(s, op, res) == [s EXCEPT !.tick_calls = Append(@, <<op, res>>)]

(* An exception inside the try block of spawn: control enters the handler  *)
(* at driver.py:210, which runs destroy.                                   *)
Raise(s, e) == [s EXCEPT !.pc = "destroy", !.orig = e]

Set(p, s) == spawn' = [spawn EXCEPT ![p] = s]

(* The instances spawn may be asked for, over the given images *)
Instances(images) ==
    [name : Names, root_gb : RootGbs, network_info : NetworkInfos,
     ephemerals : Ephemerals, image : images]

(* The driver as __init__ leaves it when its first update_host_status      *)
(* succeeded (driver.py:57-86), with no call made on it yet.               *)
Constructed(info) ==
    /\ host_info = info
    /\ host_stats = <<HostData(info)>>
    /\ refreshed = <<HostData(info)>>
    /\ init = [InitLocals EXCEPT !.done = TRUE]
    /\ reply = NoReply
    /\ imageop_semaphore = 1

(* A constructed driver, a gateway holding any of the guests and images,   *)
(* and the compute manager about to spawn an instance of image img1.       *)
Init ==
    /\ spawn = [p \in Procs |-> InitSpawn]
    /\ instances = Instances({"img1"})
    /\ guests \in SUBSET {n \in Names : Len(n) <= MaxNameLen}
    /\ gw_images \in SUBSET {i.image : i \in instances}
    /\ gw_nics = [n \in Names |-> {}]
    /\ nic_vsw = [n \in Names |-> EmptyMap]
    /\ nic_cpl = [n \in Names |-> {}]
    /\ image_files = {}
    /\ now = 0
    /\ zvm_reachable_timeout \in Timeouts
    /\ Constructed(HostInfo(8, 3, "IPL at 03/13/14", "fakenode"))

----------------------------------------------------------------------------
(* ZVMDriver.spawn, driver.py:128-217 *)

(* faulty variant: the length check is off by one *)
NameTooLong_OffByOne(name) == Len(name) > MaxNameLen + 1

NameTooLong(name) == Len(name) > MaxNameLen

(* faulty variant: the network is configured before the image is deployed *)
After_NetworkBeforeDeploy(step) ==
    CASE step = "configdrive" -> "image_query"
      [] step = "import" -> "image_query_again"
      [] step = "image_query_again" -> "root_disk"
      [] step = "root_disk" -> "guest_create"
      [] step = "guest_create" -> "setup_network"
      [] step = "setup_network" -> "guest_deploy"
      [] step = "guest_deploy" -> "config_minidisks"
      [] step = "config_minidisks" -> "wait"
      [] step = "wait" -> "guest_start"
      [] step = "guest_start" -> "done"

(* The statement order of the try block, driver.py:141-209: the position   *)
(* control reaches when the given step has returned normally.              *)
After(step) ==
    CASE step = "configdrive" -> "image_query"
      [] step = "import" -> "image_query_again"
      [] step = "image_query_again" -> "root_disk"
      [] step = "root_disk" -> "guest_create"
      [] step = "guest_create" -> "guest_deploy"
      [] step = "guest_deploy" -> "setup_network"
      [] step = "setup_network" -> "config_minidisks"
      [] step = "config_minidisks" -> "wait"
      [] step = "wait" -> "guest_start"
      [] step = "guest_start" -> "done"

(* faulty variant: the import does not wait for the permit *)
AcquireSemaphore_NoWait(p) ==
    /\ spawn[p].pc = "acquire"
    /\ imageop_semaphore' = imageop_semaphore - 1
    /\ spawn' = [spawn EXCEPT ![p].pc = "import"]
    /\ UNCHANGED <<gwVars, image_files, confVars, instances, hostVars>>

(* faulty variant: the import is skipped *)
NeedsImport_Never(spawn_image_exist) == FALSE

(* driver.py:157: "if not spawn_image_exist" *)
NeedsImport(spawn_image_exist) == ~spawn_image_exist

(* driver.py:128-141: entry and the instance-name length check, which sits *)
(* before the try block.                                                   *)
SpawnCall(p) ==
    /\ spawn[p].pc = "idle"
    /\ \E i \in instances :
          LET s == [spawn[p] EXCEPT !.name = i.name, !.root_gb = i.root_gb,
                                    !.network_info = i.network_info,
                                    !.ephemerals = i.ephemerals,
                                    !.image = i.image]
          IN  IF NameTooLong(i.name)
              THEN Set(p, [s EXCEPT !.pc = "raised", !.raised = InvalidInput])
              ELSE Set(p, [s EXCEPT !.pc = "configdrive"])
    /\ UNCHANGED <<gwVars, image_files, imageop_semaphore, confVars,
                   instances, hostVars>>

(* driver.py:143-144: VMUtils.generate_configdrive (utils.py:119-163),     *)
(* which raises ZVMConfigDriveError on an invalid config drive format.     *)
GenerateConfigdrive(p) ==
    /\ spawn[p].pc = "configdrive"
    /\ \E ok \in BOOLEAN :
          IF ok
          THEN Set(p, [Logged(spawn[p], "generate_configdrive", "ok")
                          EXCEPT !.pc = After("configdrive")])
          ELSE Set(p, Raise(Logged(spawn[p], "generate_configdrive", "fail"),
                            Err("ZVMConfigDriveError", "generate_configdrive", 0)))
    /\ UNCHANGED <<gwVars, image_files, imageop_semaphore, confVars,
                   instances, hostVars>>

(* The name under which the gateway keeps the image imported for the       *)
(* glance id im: image_query answers with names, not with ids.             *)
ImageName(im) == im \o "-name"

(* The overallRC values image_query may answer for an image: 0 with the    *)
(* image name when it is present, 0 with an empty result or 404 when it is *)
(* absent, or another failure code.                                        *)
ImageQueryAnswers(im) ==
    IF im \in gw_images
    THEN {[rc |-> 0, out |-> <<ImageName(im)>>]} \cup {[rc |-> c, out |-> << >>] : c \in OtherRCs}
    ELSE {[rc |-> 0, out |-> << >>], [rc |-> NotFoundRC, out |-> << >>]}
         \cup {[rc |-> c, out |-> << >>] : c \in OtherRCs}

(* faulty variant: every failure of the first image_query is swallowed *)
Swallowed_Any(err) == TRUE

(* driver.py:150-155: the except clause passes on overallRC 404 and        *)
(* re-raises every other failure.                                          *)
Swallowed(err) == err.rc = NotFoundRC

(* driver.py:146-157: the first image_query.  A 404 failure is swallowed,  *)
(* any other failure is re-raised; an empty or missing result leads to the *)
(* import.                                                                 *)
ImageQueryFirst(p) ==
    /\ spawn[p].pc = "image_query"
    /\ \E a \in ImageQueryAnswers(spawn[p].image) :
          LET r == call("image_query", a.rc)
              s == Logged(spawn[p], "image_query", IF r.ok THEN "ok" ELSE "fail")
              spawn_image_exist == r.ok /\ a.out # << >>
              outcome == IF r.ok THEN (IF a.out # << >> THEN "exists" ELSE "empty")
                         ELSE IF r.err.rc = NotFoundRC THEN "404" ELSE "error"
          IN  IF ~r.ok /\ ~Swallowed(r.err)
              THEN Set(p, Raise([s EXCEPT !.first_query = outcome], r.err))
              ELSE IF NeedsImport(spawn_image_exist)
                   THEN Set(p, [s EXCEPT !.pc = "acquire", !.first_query = outcome])
                   ELSE Set(p, [s EXCEPT !.pc = After("import"),
                                         !.first_query = outcome])
    /\ UNCHANGED <<gwVars, image_files, imageop_semaphore, confVars,
                   instances, hostVars>>

(* driver.py:158: entering "with self._imageop_semaphore" blocks until the *)
(* permit is free.                                                         *)
AcquireSemaphore(p) ==
    /\ spawn[p].pc = "acquire"
    /\ imageop_semaphore > 0
    /\ imageop_semaphore' = imageop_semaphore - 1
    /\ Set(p, [spawn[p] EXCEPT !.pc = "import"])
    /\ UNCHANGED <<gwVars, image_files, confVars,
                   instances, hostVars>>

(* faulty variant: the permit is kept when the body raised *)
SemaphoreExit_KeepOnError(permits, raised) ==
    IF raised THEN permits ELSE permits + 1

(* driver.py:158: leaving "with self._imageop_semaphore" runs the          *)
(* semaphore's __exit__, which releases the permit whether or not the body *)
(* raised.                                                                 *)
SemaphoreExit(permits, raised) == permits + 1

(* driver.py:159-160 with ImageUtils.import_spawn_image (utils.py:172-184):*)
(* download the image unless the file exists, then issue image_import.     *)
(* Leaving the with block releases the permit on every path.               *)
ImportSpawnImage(p) ==
    /\ spawn[p].pc = "import"
    /\ \/ /\ spawn[p].image \notin image_files      \* images.fetch raises
          /\ Set(p, Raise(spawn[p], Err("ImageFetchError", "images.fetch", 0)))
          /\ imageop_semaphore' = SemaphoreExit(imageop_semaphore, TRUE)
          /\ UNCHANGED <<gwVars, image_files>>
       \/ \E rc \in {0} \cup OtherRCs :
             LET r == call("image_import", rc)
                 s == Logged(spawn[p], "image_import", IF r.ok THEN "ok" ELSE "fail")
             IN  /\ image_files' = image_files \cup {spawn[p].image}
                 /\ imageop_semaphore' = SemaphoreExit(imageop_semaphore, ~r.ok)
                 /\ IF r.ok
                    THEN /\ Set(p, [s EXCEPT !.pc = After("import")])
                         /\ gw_images' = gw_images \cup {spawn[p].image}
                    ELSE /\ Set(p, Raise(s, r.err))
                         /\ UNCHANGED gw_images
                 /\ UNCHANGED <<guests, nicVars>>
    /\ UNCHANGED <<confVars, instances, hostVars>>

(* driver.py:162-164: the second image_query; spawn_image_name = resp[0][0] *)
(* raises IndexError on an empty result.  No failure is swallowed here.    *)
ImageQueryAgain(p) ==
    /\ spawn[p].pc = "image_query_again"
    /\ \E a \in ImageQueryAnswers(spawn[p].image) :
          LET r == call("image_query", a.rc)
              s == Logged(spawn[p], "image_query", IF r.ok THEN "ok" ELSE "fail")
          IN  IF r.ok
              THEN IF a.out # << >>
                   THEN Set(p, [s EXCEPT !.pc = After("image_query_again"),
                                         !.spawn_image_name = a.out[1]])
                   ELSE Set(p, Raise(s, Err("IndexError", "image_query", 0)))
              ELSE Set(p, Raise(s, r.err))
    /\ UNCHANGED <<gwVars, image_files, imageop_semaphore, confVars,
                   instances, hostVars>>

(* What the gateway answers image_get_root_disk_size with for an image: a  *)
(* size string in the units of the image, without a "g" suffix.            *)
ImageRootDiskSize(image_name) ==
    IF image_name = ImageName("img1") THEN "3338" ELSE "1100"

(* driver.py:169, 179: '%ig' % n *)
Gigabytes(n) == ToString(n) \o "g"

(* faulty variant: the literal size is used whatever root_gb is *)
RootDiskSize_AlwaysLiteral(root_gb, queried) == Gigabytes(root_gb)

(* driver.py:165-169: the size of the boot disk, given the answer of       *)
(* image_get_root_disk_size when it was asked.                             *)
RootDiskSize(root_gb, queried) ==
    IF root_gb = 0 THEN queried ELSE Gigabytes(root_gb)

(* driver.py:165-169: the boot disk size, queried from the image only when *)
(* root_gb is 0.                                                           *)
ResolveRootDiskSize(p) ==
    /\ spawn[p].pc = "root_disk"
    /\ IF spawn[p].root_gb = 0
       THEN \E rc \in {0} \cup OtherRCs :
               LET r == call("image_get_root_disk_size", rc)
                   s == [Logged(spawn[p], "image_get_root_disk_size",
                                IF r.ok THEN "ok" ELSE "fail")
                           EXCEPT !.size_query = spawn[p].spawn_image_name]
                   queried == ImageRootDiskSize(s.size_query)
               IN  IF r.ok
                   THEN Set(p, [s EXCEPT !.pc = After("root_disk"),
                                   !.root_disk_size =
                                       RootDiskSize(s.root_gb, queried)])
                   ELSE Set(p, Raise(s, r.err))
       ELSE Set(p, [spawn[p] EXCEPT !.pc = After("root_disk"),
                       !.root_disk_size = RootDiskSize(spawn[p].root_gb, "")])
    /\ UNCHANGED <<gwVars, image_files, imageop_semaphore, confVars,
                   instances, hostVars>>

(* CONF.default_ephemeral_format (driver.py:42), unset by default, and the *)
(* constant the driver falls back to (driver.py:182)                       *)
default_ephemeral_format == ""
DEFAULT_EPH_DISK_FMT == "const.DEFAULT_EPH_DISK_FMT"

(* driver.py:179-182: the entry of eph_list for one ephemeral disk *)
EphDict(eph) ==
    [size |-> Gigabytes(eph.size),
     format |-> IF eph.guest_format # "" THEN eph.guest_format
                ELSE IF default_ephemeral_format # ""
                     THEN default_ephemeral_format
                     ELSE DEFAULT_EPH_DISK_FMT]

(* driver.py:176-183: eph_list, in the order of block_device_info *)
EphList(ephemerals) == [i \in DOMAIN ephemerals |-> EphDict(ephemerals[i])]

(* faulty variant: the boot disk is appended after the ephemeral disks *)
DiskList_BootLast(root_disk_size, eph_list) ==
    eph_list \o <<[size |-> root_disk_size, is_boot_disk |-> TRUE]>>

(* driver.py:171-175, 185-186: disk_list: the boot disk, then eph_list *)
DiskList(root_disk_size, eph_list) ==
    <<[size |-> root_disk_size, is_boot_disk |-> TRUE]>> \o eph_list

(* driver.py:171-190: guest_create.  The gateway cannot define a guest     *)
(* whose name is already in use.                                           *)
GuestCreate(p) ==
    /\ spawn[p].pc = "guest_create"
    /\ \E rc \in (IF spawn[p].name \in guests THEN {} ELSE {0}) \cup OtherRCs :
          LET r == call("guest_create", rc)
              s == [Logged(spawn[p], "guest_create",
                           IF r.ok THEN "ok" ELSE "fail")
                      EXCEPT !.disk_list =
                                DiskList(spawn[p].root_disk_size,
                                         EphList(spawn[p].ephemerals))]
          IN  IF r.ok
              THEN /\ Set(p, [s EXCEPT !.pc = After("guest_create")])
                   /\ guests' = guests \cup {spawn[p].name}
              ELSE /\ Set(p, Raise(s, r.err))
                   /\ UNCHANGED guests
    /\ UNCHANGED <<gw_images, nicVars, image_files, imageop_semaphore, confVars,
                   instances, hostVars>>

(* driver.py:192-194: guest_deploy *)
GuestDeploy(p) ==
    /\ spawn[p].pc = "guest_deploy"
    /\ \E rc \in {0} \cup OtherRCs :
          LET r == call("guest_deploy", rc)
              s == Logged(spawn[p], "guest_deploy", IF r.ok THEN "ok" ELSE "fail")
          IN  IF r.ok THEN Set(p, [s EXCEPT !.pc = After("guest_deploy")])
              ELSE Set(p, Raise(s, r.err))
    /\ UNCHANGED <<gwVars, image_files, imageop_semaphore, confVars,
                   instances, hostVars>>

(* driver.py:196-197 with _setup_network (driver.py:219-233): one          *)
(* guest_create_network_interface call carrying every NIC, and no call for *)
(* an empty network_info.                                                  *)
SetupNetwork(p) ==
    /\ spawn[p].pc = "setup_network"
    /\ IF spawn[p].network_info # << >>
       THEN \E rc \in {0} \cup OtherRCs :
               LET r == call("guest_create_network_interface", rc)
                   s == Logged(spawn[p], "guest_create_network_interface",
                               IF r.ok THEN "ok" ELSE "fail")
               IN  IF r.ok
                   THEN /\ Set(p, [s EXCEPT !.pc = After("setup_network")])
                        /\ gw_nics' = [gw_nics EXCEPT ![spawn[p].name] =
                                          Range(spawn[p].network_info)]
                   ELSE /\ Set(p, Raise(s, r.err))
                        /\ UNCHANGED gw_nics
       ELSE /\ Set(p, [spawn[p] EXCEPT !.pc = After("setup_network")])
            /\ UNCHANGED gw_nics
    /\ UNCHANGED <<guests, gw_images, nic_vsw, nic_cpl, image_files,
                   imageop_semaphore, confVars,
                   instances, hostVars>>

(* driver.py:199-202: guest_config_minidisks, only with ephemeral disks *)
ConfigMinidisks(p) ==
    /\ spawn[p].pc = "config_minidisks"
    /\ IF spawn[p].ephemerals # << >>
       THEN \E rc \in {0} \cup OtherRCs :
               LET r == call("guest_config_minidisks", rc)
                   s == Logged(spawn[p], "guest_config_minidisks",
                               IF r.ok THEN "ok" ELSE "fail")
               IN  IF r.ok THEN Set(p, [s EXCEPT !.pc = After("config_minidisks")])
                   ELSE Set(p, Raise(s, r.err))
       ELSE Set(p, [spawn[p] EXCEPT !.pc = After("config_minidisks")])
    /\ UNCHANGED <<gwVars, image_files, imageop_semaphore, confVars,
                   instances, hostVars>>

----------------------------------------------------------------------------
(* ZVMDriver._wait_network_ready, driver.py:235-277.  The looping call     *)
(* runs _wait_for_nics_add_in_vm at once and then every Interval seconds   *)
(* until it raises: LoopingCallDone ends the wait normally, any other      *)
(* exception leaves through timer.wait().                                  *)

(* driver.py:271-277: compute the expiration and start the timer *)
WaitNetworkReady(p) ==
    /\ spawn[p].pc = "wait"
    /\ Set(p, [spawn[p] EXCEPT !.pc = "tick", !.wait = "POLL",
                               !.expiration = now + zvm_reachable_timeout])
    /\ UNCHANGED <<gwVars, image_files, imageop_semaphore, confVars,
                   instances, hostVars>>

(* faulty variants of the deadline test: one tick late; the debug value 0  *)
(* not honoured                                                            *)
DeadlineExceeded_Late(timeout, utcnow, expiration) ==
    timeout # 0 /\ utcnow > expiration + Interval

DeadlineExceeded_NoDebug(timeout, utcnow, expiration) ==
    utcnow > expiration

(* faulty variant: the comparison with the expiration is not strict *)
DeadlineExceeded_NonStrict(timeout, utcnow, expiration) ==
    timeout # 0 /\ utcnow >= expiration

(* faulty variant: the deadline is never tested *)
DeadlineExceeded_Never(timeout, utcnow, expiration) == FALSE

(* driver.py:240-241 *)
DeadlineExceeded(timeout, utcnow, expiration) ==
    timeout # 0 /\ utcnow > expiration

(* faulty variant: an empty mapping counts as ready *)
SwitchInfoReady_AcceptEmpty(switch_dict) == "" \notin Range(switch_dict)

(* driver.py:249: "switch_dict and '' not in switch_dict.values()" *)
SwitchInfoReady(switch_dict) ==
    DOMAIN switch_dict # {} /\ "" \notin Range(switch_dict)

(* faulty variant: the except clause catches nothing the gateway raises *)
Ignored_Nothing(e) == e.type = "ZVMNetworkError"

(* driver.py:260-264: the except clause of the tick catches exactly the    *)
(* ZVMBaseException classes.                                               *)
Ignored(e) == e.type \in ZVMBaseException

(* faulty variant: spawn goes on to its next step after a failed wait *)
WaitRaise_GoOn(s, e) == [s EXCEPT !.wait = "FAILED", !.pc = After("wait")]

(* An exception the tick does not catch ends the looping call and leaves   *)
(* _wait_network_ready.                                                    *)
WaitRaise(s, e) == Raise([s EXCEPT !.wait = "FAILED"], e)

(* driver.py:239-249, 255-264: the start of a tick: the deadline check,    *)
(* then the guest_get_nic_vswitch_info query and the test of its answer.   *)
WaitTick(p) ==
    /\ spawn[p].pc = "tick"
    /\ LET s0 == [spawn[p] EXCEPT !.ticks = @ + 1, !.tick_calls = << >>,
                                  !.tick_now = now,
                                  !.switch_dict = [ok |-> FALSE, out |-> EmptyMap],
                                  !.def_res = EmptyMap, !.pending = {}]
       IN  IF DeadlineExceeded(zvm_reachable_timeout, now, s0.expiration)
           THEN Set(p, WaitRaise(s0, ZVMNetworkError))
           ELSE \E rc \in {0} \cup OtherRCs :
                   LET r == call("guest_get_nic_vswitch_info", rc)
                       s == Polled(s0, "guest_get_nic_vswitch_info",
                                   IF r.ok THEN "ok" ELSE "fail")
                       out == nic_vsw[s.name]
                   IN  IF r.ok
                       THEN IF SwitchInfoReady(out)
                            THEN Set(p, [s EXCEPT !.pc = "poll_def",
                                            !.switch_dict = [ok |-> TRUE, out |-> out],
                                            !.pending = DOMAIN out])
                            ELSE Set(p, [s EXCEPT !.pc = "sleep",
                                            !.switch_dict = [ok |-> TRUE, out |-> out]])
                       ELSE IF Ignored(r.err)
                            THEN Set(p, [s EXCEPT !.pc = "sleep"])
                            ELSE Set(p, WaitRaise(s, r.err))
    /\ UNCHANGED <<gwVars, image_files, imageop_semaphore, confVars,
                   instances, hostVars>>

(* faulty variant: after a NIC that is not coupled the loop goes on to the *)
(* remaining keys                                                          *)
DefinitionVerdict_NoShortCircuit(r, nic_coupled, rest) ==
    IF ~r.ok THEN (IF Ignored(r.err) THEN "return" ELSE "raise")
    ELSE IF rest = {} THEN (IF nic_coupled THEN "done" ELSE "return")
    ELSE "next"

(* faulty variant: a NIC that is not coupled does not end the tick *)
DefinitionVerdict_IgnoreUncoupled(r, nic_coupled, rest) ==
    IF ~r.ok THEN (IF Ignored(r.err) THEN "return" ELSE "raise")
    ELSE IF rest = {} THEN "done" ELSE "next"

(* driver.py:250-254, 260-269: what the loop over switch_dict does with    *)
(* the answer for one key: the tick returns on the first NIC that is not   *)
(* coupled and on an ignored failure; after the last key it raises         *)
(* LoopingCallDone.                                                        *)
DefinitionVerdict(r, nic_coupled, rest) ==
    IF ~r.ok THEN (IF Ignored(r.err) THEN "return" ELSE "raise")
    ELSE IF ~nic_coupled THEN "return"
    ELSE IF rest = {} THEN "done" ELSE "next"

(* One pass of the loop over switch_dict: the guest_get_definition_info    *)
(* query for the next key.  The iteration order of the dict is not fixed   *)
(* by the driver.                                                          *)
PollDefinition(p) ==
    /\ spawn[p].pc = "poll_def"
    /\ \E key \in spawn[p].pending, rc \in {0} \cup OtherRCs :
          LET r == call("guest_get_definition_info", rc)
              nic_coupled == key \in nic_cpl[spawn[p].name]
              res == IF ~r.ok THEN "failed"
                     ELSE IF nic_coupled THEN "coupled" ELSE "uncoupled"
              s == [Polled(spawn[p], "guest_get_definition_info",
                           IF r.ok THEN "ok" ELSE "fail")
                      EXCEPT !.def_res = @ @@ (key :> res),
                             !.pending = @ \ {key}]
              verdict == DefinitionVerdict(r, nic_coupled, s.pending)
          IN  CASE verdict = "return" -> Set(p, [s EXCEPT !.pc = "sleep"])
                [] verdict = "next" -> Set(p, s)
                [] verdict = "done" -> Set(p, [s EXCEPT !.pc = After("wait"),
                                                        !.wait = "DONE"])
                [] verdict = "raise" -> Set(p, WaitRaise(s, r.err))
    /\ UNCHANGED <<gwVars, image_files, imageop_semaphore, confVars,
                   instances, hostVars>>

(* faulty variant: the timer fires while the previous tick is still       *)
(* querying                                                                *)
Sleep_Overlap(p) ==
    /\ spawn[p].pc \in {"sleep", "poll_def"}
    /\ spawn[p].ticks < MaxTicks
    /\ \E late \in Lateness : now' = now + Interval + late
    /\ Set(p, [spawn[p] EXCEPT !.pc = "tick"])
    /\ UNCHANGED <<gwVars, image_files, imageop_semaphore, zvm_reachable_timeout,
                   instances, hostVars>>

(* driver.py:277: timer.start(interval=10): the next tick starts Interval  *)
(* seconds after the previous one, or later.                               *)
Sleep(p) ==
    /\ spawn[p].pc = "sleep"
    /\ spawn[p].ticks < MaxTicks
    /\ \E late \in Lateness : now' = now + Interval + late
    /\ Set(p, [spawn[p] EXCEPT !.pc = "tick"])
    /\ UNCHANGED <<gwVars, image_files, imageop_semaphore, zvm_reachable_timeout,
                   instances, hostVars>>

(* driver.py:206-209: guest_start, the last step of spawn *)
GuestStart(p) ==
    /\ spawn[p].pc = "guest_start"
    /\ \E rc \in {0} \cup OtherRCs :
          LET r == call("guest_start", rc)
              s == Logged(spawn[p], "guest_start", IF r.ok THEN "ok" ELSE "fail")
          IN  IF r.ok THEN Set(p, [s EXCEPT !.pc = After("guest_start")])
              ELSE Set(p, Raise(s, r.err))
    /\ UNCHANGED <<gwVars, image_files, imageop_semaphore, confVars,
                   instances, hostVars>>

----------------------------------------------------------------------------
(* The handler of spawn, driver.py:210-217, running ZVMDriver.destroy      *)
(* (driver.py:283-293) inside excutils.save_and_reraise_exception.         *)

(* save_and_reraise_exception: leaving the with block normally re-raises   *)
(* the saved exception; an exception raised inside the block propagates    *)
(* instead and the saved one is dropped (logged only).                     *)
SaveAndReraise(saved, inner) == IF inner = NoError THEN saved ELSE inner

(* faulty variant: the membership test is inverted *)
InstanceExists_Negated(instance_name, list_instances) ==
    instance_name \notin list_instances

(* driver.py:120-122: _instance_exists *)
InstanceExists(instance_name, list_instances) == instance_name \in list_instances

(* driver.py:286-287, 291-293 with list_instances (driver.py:114-118): the *)
(* guest_list call and the membership test; nothing is deleted when the    *)
(* name is not listed.                                                     *)
DestroyInstanceExists(p) ==
    /\ spawn[p].pc = "destroy"
    /\ \E rc \in {0} \cup OtherRCs :
          LET r == call("guest_list", rc)
              s0 == Logged(spawn[p], "guest_list", IF r.ok THEN "ok" ELSE "fail")
              s == [s0 EXCEPT !.listed = IF ~r.ok THEN "error"
                                         ELSE IF s0.name \in guests THEN "yes"
                                         ELSE "no"]
          IN  IF r.ok
              THEN IF InstanceExists(s.name, guests)
                   THEN Set(p, [s EXCEPT !.pc = "guest_delete"])
                   ELSE Set(p, [s EXCEPT !.pc = "raised",
                                   !.raised = SaveAndReraise(s.orig, NoError)])
              ELSE Set(p, [s EXCEPT !.pc = "raised",
                              !.raised = SaveAndReraise(s.orig, r.err)])
    /\ UNCHANGED <<gwVars, image_files, imageop_semaphore, confVars,
                   instances, hostVars>>

(* driver.py:288-290: guest_delete, then the end of the with block *)
DestroyGuestDelete(p) ==
    /\ spawn[p].pc = "guest_delete"
    /\ \E rc \in {0} \cup OtherRCs :
          LET r == call("guest_delete", rc)
              s == Logged(spawn[p], "guest_delete", IF r.ok THEN "ok" ELSE "fail")
              n == spawn[p].name
          IN  IF r.ok
              THEN /\ Set(p, [s EXCEPT !.pc = "raised",
                                 !.raised = SaveAndReraise(s.orig, NoError)])
                   /\ guests' = guests \ {n}
                   /\ gw_nics' = [gw_nics EXCEPT ![n] = {}]
                   /\ nic_vsw' = [nic_vsw EXCEPT ![n] = EmptyMap]
                   /\ nic_cpl' = [nic_cpl EXCEPT ![n] = {}]
              ELSE /\ Set(p, [s EXCEPT !.pc = "raised",
                                 !.raised = SaveAndReraise(s.orig, r.err)])
                   /\ UNCHANGED <<guests, nicVars>>
    /\ UNCHANGED <<gw_images, image_files, imageop_semaphore, confVars,
                   instances, hostVars>>

----------------------------------------------------------------------------
(* The network agent (driver.py:236: "Wait until neutron zvm-agent add all *)
(* NICs to vm"): outside the driver, it attaches the NICs of a guest one   *)
(* by one, at any time.                                                    *)

(* the agent records a NIC of the guest, with or without its vswitch *)
AgentAddNic(n, k) ==
    /\ n \in guests /\ k \in gw_nics[n] /\ k \notin DOMAIN nic_vsw[n]
    /\ \E sw \in Switches : nic_vsw' = [nic_vsw EXCEPT ![n] = @ @@ (k :> sw)]
    /\ UNCHANGED <<spawn, guests, gw_images, gw_nics, nic_cpl, image_files,
                   imageop_semaphore, confVars,
                   instances, hostVars>>

(* the agent resolves the vswitch of a recorded NIC *)
AgentSetSwitch(n, k) ==
    /\ n \in guests /\ k \in DOMAIN nic_vsw[n] /\ nic_vsw[n][k] = ""
    /\ nic_vsw' = [nic_vsw EXCEPT ![n][k] = "VSW1"]
    /\ UNCHANGED <<spawn, guests, gw_images, gw_nics, nic_cpl, image_files,
                   imageop_semaphore, confVars,
                   instances, hostVars>>

(* the agent couples a recorded NIC to its vswitch *)
AgentCouple(n, k) ==
    /\ n \in guests /\ k \in DOMAIN nic_vsw[n] /\ k \notin nic_cpl[n]
    /\ nic_cpl' = [nic_cpl EXCEPT ![n] = @ \cup {k}]
    /\ UNCHANGED <<spawn, guests, gw_images, gw_nics, nic_vsw, image_files,
                   imageop_semaphore, confVars,
                   instances, hostVars>>

NetworkAgent ==
    \E n \in Names, k \in NicIds :
       \/ AgentAddNic(n, k)
       \/ AgentSetSwitch(n, k)
       \/ AgentCouple(n, k)

----------------------------------------------------------------------------
SpawnStep(p) ==
    \/ SpawnCall(p)
    \/ GenerateConfigdrive(p)
    \/ ImageQueryFirst(p)
    \/ AcquireSemaphore(p)
    \/ ImportSpawnImage(p)
    \/ ImageQueryAgain(p)
    \/ ResolveRootDiskSize(p)
    \/ GuestCreate(p)
    \/ GuestDeploy(p)
    \/ SetupNetwork(p)
    \/ ConfigMinidisks(p)
    \/ WaitNetworkReady(p)
    \/ WaitTick(p)
    \/ PollDefinition(p)
    \/ Sleep(p)
    \/ GuestStart(p)
    \/ DestroyInstanceExists(p)
    \/ DestroyGuestDelete(p)

(* One spawn on the driver, with the network agent running beside it *)
Next ==
    \/ SpawnStep("s1")
    \/ NetworkAgent

Spec == Init /\ [][Next]_vars

(* The spawn under the scheduling the driver relies on: the greenthread    *)
(* running spawn is resumed after every gateway answer, and the timer of   *)
(* FixedIntervalLoopingCall (driver.py:275-277) fires after every tick     *)
(* that returned.  Nothing is assumed of the network agent.                *)
SpecFair == Spec /\ WF_vars(SpawnStep("s1"))

----------------------------------------------------------------------------
(* Concurrent spawns on one driver (spawns run as green threads of one     *)
(* compute service).  The image stage of spawn, driver.py:128-164, and the *)
(* handler a failure of it enters; a spawn that has passed its second      *)
(* image_query touches neither the permit nor the images again and is not  *)
(* followed further here.                                                  *)

ImageStage(p) ==
    \/ SpawnCall(p)
    \/ GenerateConfigdrive(p)
    \/ ImageQueryFirst(p)
    \/ AcquireSemaphore(p)
    \/ ImportSpawnImage(p)
    \/ ImageQueryAgain(p)
    \/ DestroyInstanceExists(p)
    \/ DestroyGuestDelete(p)

(* A constructed driver and the compute manager about to spawn instances   *)
(* of either image, each with a given root disk, no NIC and no ephemeral   *)
(* disk.                                                                   *)
InitConc ==
    /\ spawn = [p \in Procs |-> InitSpawn]
    /\ instances = {i \in Instances(Images) :
                       /\ i.root_gb # 0
                       /\ i.network_info = << >>
                       /\ i.ephemerals = << >>}
    /\ guests \in SUBSET {n \in Names : Len(n) <= MaxNameLen}
    /\ gw_images \in SUBSET Images
    /\ gw_nics = [n \in Names |-> {}]
    /\ nic_vsw = [n \in Names |-> EmptyMap]
    /\ nic_cpl = [n \in Names |-> {}]
    /\ image_files = {}
    /\ now = 0
    /\ zvm_reachable_timeout = 0
    /\ Constructed(HostInfo(8, 3, "IPL at 03/13/14", "fakenode"))

NextConc == \E p \in Procs : ImageStage(p)

SpecConc == InitConc /\ [][NextConc]_vars

(* The concurrent spawns under the scheduling of eventlet: every           *)
(* greenthread that can run is eventually run, and every gateway call      *)
(* returns.                                                                *)
SpecConcFair == SpecConc /\ \A p \in Procs : WF_vars(ImageStage(p))

----------------------------------------------------------------------------
(* ZVMDriver.__init__, driver.py:57-86: the loop that calls                *)
(* update_host_status until _host_stats is no longer empty.                *)

(* faulty variant: with the list used up the interval starts over *)
NextSleep_StartsOver(inc_slp, slp) ==
    IF Len(inc_slp) # 0 /\ Head(inc_slp) # 0 THEN Head(inc_slp) ELSE 5

(* driver.py:80: "_slp = len(_inc_slp) != 0 and _inc_slp.pop(0) or _slp"   *)
NextSleep(inc_slp, slp) ==
    IF Len(inc_slp) # 0 /\ Head(inc_slp) # 0 THEN Head(inc_slp) ELSE slp

(* faulty variant: the first failure ends the loop and __init__ returns    *)
(* with an empty _host_stats                                               *)
Construct_GiveUp ==
    /\ ~init.done
    /\ \E rc \in {0} \cup OtherRCs :
          LET u == update_host_status(rc, host_info)
          IN  IF u.ok
              THEN /\ host_stats' = u.caps
                   /\ refreshed' = u.caps
                   /\ init' = [InitLocals EXCEPT !.done = TRUE]
              ELSE /\ init' = [InitLocals EXCEPT !.done = TRUE]
                   /\ UNCHANGED <<host_stats, refreshed>>
    /\ UNCHANGED <<host_info, reply, spawnVars>>

(* driver.py:75-86: one pass of the loop: the result is assigned to        *)
(* _host_stats; any exception is logged and followed by time.sleep(_slp).  *)
(* The locals are gone once the loop is left and __init__ returns.         *)
Construct ==
    /\ ~init.done
    /\ \E rc \in {0} \cup OtherRCs :
          LET u == update_host_status(rc, host_info)
              slp == NextSleep(init.inc_slp, init.slp)
          IN  IF u.ok
              THEN /\ host_stats' = u.caps
                   /\ refreshed' = u.caps
                   /\ init' = IF u.caps # << >>
                              THEN [InitLocals EXCEPT !.done = TRUE]
                              ELSE init
              ELSE /\ Len(init.slept) < MaxInitFailures
                   /\ init' = [init EXCEPT
                                  !.inc_slp = IF Len(@) # 0 THEN Tail(@) ELSE @,
                                  !.slp = slp,
                                  !.slept = Append(@, slp)]
                   /\ UNCHANGED <<host_stats, refreshed>>
    /\ UNCHANGED <<host_info, reply, spawnVars>>

(* The host changes between two host_get_info requests (memory in use, a   *)
(* new IPL).                                                               *)
HostChanges ==
    /\ host_info' \in HostInfos \ {host_info}
    /\ UNCHANGED <<host_stats, init, refreshed, reply, spawnVars>>

----------------------------------------------------------------------------
(* Host queries of a constructed driver *)

(* driver.py:369-401 called from outside the driver *)
UpdateHostStatus ==
    /\ init.done
    /\ \E rc \in {0} \cup OtherRCs :
          LET u == update_host_status(rc, host_info)
          IN  /\ reply' = [NoReply EXCEPT !.op = "update_host_status",
                                          !.rc = rc, !.calls = u.calls,
                                          !.err = u.err, !.value = u.caps]
              /\ refreshed' = IF u.ok /\ u.caps # << >> THEN u.caps ELSE refreshed
    /\ UNCHANGED <<host_info, host_stats, init, spawnVars>>

(* faulty variant: a negative difference is reported as 0 *)
MemUsed_Clamped(host_memory_total, host_memory_free) ==
    IF host_memory_total - host_memory_free < 0 THEN 0
    ELSE host_memory_total - host_memory_free

(* driver.py:343 *)
MemUsed(host_memory_total, host_memory_free) ==
    host_memory_total - host_memory_free

(* driver.py:357: jsonutils.dumps turns the value into its JSON text *)
jsonutils_dumps(v) == <<"json", v>>

(* driver.py:345-359: the dict get_available_resource returns *)
AvailableResource(stats) ==
    [vcpus |-> stats.vcpus,
     memory_mb |-> stats.host_memory_total,
     local_gb |-> stats.disk_total,
     vcpus_used |-> stats.vcpus_used,
     memory_mb_used |-> MemUsed(stats.host_memory_total, stats.host_memory_free),
     local_gb_used |-> stats.disk_used,
     hypervisor_type |-> stats.hypervisor_type,
     hypervisor_version |-> stats.hypervisor_version,
     hypervisor_hostname |-> stats.hypervisor_hostname,
     cpu_info |-> jsonutils_dumps(stats.cpu_info),
     disk_available_least |-> stats.disk_available,
     supported_instances |-> stats.supported_instances,
     numa_topology |-> "None"]

(* driver.py:328-361: get_available_resource: a fresh update_host_status,  *)
(* whose first element is translated; its failure is not caught.           *)
GetAvailableResource ==
    /\ init.done
    /\ \E rc \in {0} \cup OtherRCs :
          LET u == update_host_status(rc, host_info)
              r == [NoReply EXCEPT !.op = "get_available_resource",
                                   !.rc = rc, !.calls = u.calls]
          IN  IF ~u.ok
              THEN /\ reply' = [r EXCEPT !.err = u.err]
                   /\ UNCHANGED refreshed
              ELSE IF u.caps = << >>
                   THEN /\ reply' = [r EXCEPT !.err =
                                        Err("IndexError", "get_available_resource", 0)]
                        /\ UNCHANGED refreshed
                   ELSE /\ reply' = [r EXCEPT !.stats = u.caps,
                                        !.value = AvailableResource(u.caps[1])]
                        /\ refreshed' = u.caps
    /\ UNCHANGED <<host_info, host_stats, init, spawnVars>>

(* driver.py:409-411: the host names of the cached _host_stats *)
AvailableNodes(stats) ==
    LET named == SelectSeq(stats, LAMBDA d : d.hypervisor_hostname # "None")
    IN  [i \in 1..Len(named) |-> named[i].hypervisor_hostname]

GetAvailableNodes ==
    /\ init.done
    /\ reply' = [NoReply EXCEPT !.op = "get_available_nodes",
                                !.stats = refreshed,
                                !.value = AvailableNodes(host_stats)]
    /\ UNCHANGED <<host_info, host_stats, init, refreshed, spawnVars>>

(* driver.py:406-407: the ipl_time of the cached _host_stats *)
GetHostUptime ==
    /\ init.done
    /\ reply' = IF host_stats = << >>
                THEN [NoReply EXCEPT !.op = "get_host_uptime",
                         !.err = Err("IndexError", "get_host_uptime", 0)]
                ELSE [NoReply EXCEPT !.op = "get_host_uptime",
                         !.stats = refreshed,
                         !.value = host_stats[1].ipl_time]
    /\ UNCHANGED <<host_info, host_stats, init, refreshed, spawnVars>>

----------------------------------------------------------------------------
(* The instance status query *)

(* The lookup table const.ZVM_POWER_STAT (nova_zvm/virt/zvm/const.py) *)
ZVM_POWER_STAT == ("on" :> "RUNNING") @@ ("off" :> "SHUTDOWN")

(* faulty variant: the table is subscripted, an unknown token raises *)
mapping_power_stat_Subscript(power_stat) ==
    IF power_stat \in DOMAIN ZVM_POWER_STAT THEN ZVM_POWER_STAT[power_stat]
    ELSE "KeyError"

(* utils.py:43-45: const.ZVM_POWER_STAT.get(power_stat, power_state.NOSTATE) *)
mapping_power_stat(power_stat) ==
    IF power_stat \in DOMAIN ZVM_POWER_STAT THEN ZVM_POWER_STAT[power_stat]
    ELSE "NOSTATE"

InstanceNotFound == Err("InstanceNotFound", "get_info", 0)

(* What guest_get_power_state may answer for a guest: its power token when *)
(* the guest is defined, overallRC 404 when it is not, or another failure. *)
PowerStateAnswers(name) ==
    (IF name \in guests THEN {[rc |-> 0, out |-> tk] : tk \in PowerTokens}
     ELSE {[rc |-> NotFoundRC, out |-> ""]})
       \cup {[rc |-> c, out |-> ""] : c \in OtherRCs}

(* faulty variant: every gateway failure is reported as InstanceNotFound *)
GetInfoFailure_AlwaysNotFound(err) == InstanceNotFound

(* driver.py:100-107: the except clause of get_info *)
GetInfoFailure(err) == IF err.rc = NotFoundRC THEN InstanceNotFound ELSE err

(* driver.py:94-112: get_info: one guest_get_power_state request, then the *)
(* translation of its token; instance['power_state'] is not read.          *)
GetInfo ==
    /\ init.done
    /\ \E n \in Names, prev \in PowerStates :
          \E a \in PowerStateAnswers(n) :
             LET r == call("guest_get_power_state", a.rc)
                 q == [NoReply EXCEPT !.op = "get_info", !.name = n,
                          !.previous = prev, !.rc = a.rc, !.token = a.out,
                          !.calls = <<<<"guest_get_power_state",
                                       IF r.ok THEN "ok" ELSE "fail">>>>]
             IN  reply' = IF r.ok
                          THEN [q EXCEPT !.value = mapping_power_stat(a.out)]
                          ELSE [q EXCEPT !.err = GetInfoFailure(r.err)]
    /\ UNCHANGED <<host_info, host_stats, init, refreshed, spawnVars>>

(* faulty variant: a previous PAUSED overrides every fresh state *)
StickyPause_Broad(power_stat, previous) ==
    IF previous = "PAUSED" THEN "PAUSED" ELSE power_stat

(* nova/virt/zvm/driver.py:104-109: the state _get_instance_info reports *)
StickyPause(power_stat, previous) ==
    IF power_stat = "RUNNING" /\ previous = "PAUSED" THEN "PAUSED"
    ELSE power_stat

(* What the SDK's guest_get_info may do for a guest: return its vm_info,   *)
(* raise ZVMVirtualMachineNotExist when it is not defined, or raise        *)
(* another exception.                                                      *)
GuestInfoAnswers(name) ==
    (IF name \in guests
     THEN {[err |-> NoError, power_state |-> tk] : tk \in PowerTokens}
     ELSE {[err |-> Err("ZVMVirtualMachineNotExist", "guest_get_info", 0),
            power_state |-> ""]})
       \cup {[err |-> Err("SDKBaseException", "guest_get_info", 0),
              power_state |-> ""]}

(* nova/virt/zvm/driver.py:98-141: get_info of the earlier driver, through *)
(* _get_instance_info: the fresh state is overridden by PAUSED when the    *)
(* instance was paused before.                                             *)
LegacyGetInfo ==
    /\ init.done
    /\ \E n \in Names, prev \in PowerStates :
          \E a \in GuestInfoAnswers(n) :
             LET q == [NoReply EXCEPT !.op = "legacy_get_info", !.name = n,
                          !.previous = prev, !.token = a.power_state,
                          !.calls = <<<<"guest_get_info",
                                       IF a.err = NoError THEN "ok" ELSE "fail">>>>]
             IN  reply' =
                    IF a.err = NoError
                    THEN [q EXCEPT !.value =
                             StickyPause(mapping_power_stat(a.power_state), prev)]
                    ELSE IF a.err.type = "ZVMVirtualMachineNotExist"
                         THEN [q EXCEPT !.err = InstanceNotFound]
                         ELSE [q EXCEPT !.err = a.err]
    /\ UNCHANGED <<host_info, host_stats, init, refreshed, spawnVars>>

(* The (timeout, retry_interval) pairs power_off is called with: the       *)
(* defaults of driver.py:305 and one other pair.                           *)
StopArgs == {<<0, 0>>, <<30, 10>>}

(* The rc values the gateway answers a guest_list or a mutating request    *)
(* with: success or a failure.                                             *)
RequestRCs == {0} \cup OtherRCs

(* driver.py:290, 311, 322: the request each entry point sends for a guest *)
(* that exists, with its arguments.                                        *)
MutatingRequest(entry, inst_name, timeout, retry_interval) ==
    CASE entry = "destroy"   -> <<"guest_delete", inst_name>>
      [] entry = "power_off" -> <<"guest_stop", inst_name, timeout,
                                  retry_interval>>
      [] entry = "power_on"  -> <<"guest_start", inst_name>>

(* faulty variant: the request is sent whether or not the guest is listed *)
GuardedRequests_Unguarded(exists, request) == <<request>>

(* driver.py:287-293, 308-314, 319-326: the request is sent when           *)
(* _instance_exists answers True; otherwise a warning is logged and        *)
(* nothing is sent.                                                        *)
GuardedRequests(exists, request) ==
    IF exists THEN <<request>> ELSE << >>

(* The reply of destroy, power_off or power_on for the guest n: guest_list *)
(* (driver.py:114-118) answered with rc_list, then, for a listed guest,    *)
(* the mutating request answered with rc_req. A failed request raises      *)
(* ZVMSDKRequestFailed out of the entry point.                             *)
GuardedReply(entry, n, timeout, retry_interval, rc_list, rc_req) ==
    LET l    == call("guest_list", rc_list)
        req  == MutatingRequest(entry, n, timeout, retry_interval)
        sent == IF l.ok
                THEN GuardedRequests(InstanceExists(n, guests), req)
                ELSE << >>
        r    == call(req[1], rc_req)
        q    == [NoReply EXCEPT !.op = entry, !.name = n,
                    !.calls = <<<<"guest_list",
                                  IF l.ok THEN "ok" ELSE "fail">>>>,
                    !.requests = sent]
    IN  IF ~l.ok THEN [q EXCEPT !.err = l.err, !.rc = rc_list]
        ELSE IF sent = << >> THEN q
        ELSE [q EXCEPT !.calls = @ \o <<<<req[1],
                                          IF r.ok THEN "ok" ELSE "fail">>>>,
                       !.err = r.err, !.rc = rc_req]

(* driver.py:283-293: destroy; a guest_delete that succeeded removes the   *)
(* guest from the gateway.                                                 *)
Destroy ==
    /\ init.done
    /\ \E n \in Names, rc_list \in RequestRCs, rc_req \in RequestRCs :
          /\ reply' = GuardedReply("destroy", n, 0, 0, rc_list, rc_req)
          /\ guests' = IF reply'.requests # << >> /\ reply'.err = NoError
                       THEN guests \ {n} ELSE guests
    /\ UNCHANGED <<host_info, host_stats, init, refreshed, spawn, gw_images,
                   nicVars, image_files, imageop_semaphore, confVars,
                   instances>>

(* driver.py:305-314: power_off *)
PowerOff ==
    /\ init.done
    /\ \E n \in Names, a \in StopArgs, rc_list \in RequestRCs,
          rc_req \in RequestRCs :
          reply' = GuardedReply("power_off", n, a[1], a[2], rc_list, rc_req)
    /\ UNCHANGED <<host_info, host_stats, init, refreshed, spawnVars>>

(* driver.py:316-326: power_on *)
PowerOn ==
    /\ init.done
    /\ \E n \in Names, rc_list \in RequestRCs, rc_req \in RequestRCs :
          reply' = GuardedReply("power_on", n, 0, 0, rc_list, rc_req)
    /\ UNCHANGED <<host_info, host_stats, init, refreshed, spawnVars>>

----------------------------------------------------------------------------
(* The driver from the start of its construction: __init__ runs its loop,  *)
(* then the compute manager calls the query entry points in any order      *)
(* while the host changes.                                                 *)

InitDriver ==
    /\ spawn = [p \in Procs |-> InitSpawn]
    /\ instances = {}
    /\ guests = {"test0001"}
    /\ gw_images = {}
    /\ gw_nics = [n \in Names |-> {}]
    /\ nic_vsw = [n \in Names |-> EmptyMap]
    /\ nic_cpl = [n \in Names |-> {}]
    /\ image_files = {}
    /\ imageop_semaphore = 1
    /\ now = 0
    /\ zvm_reachable_timeout = 0
    /\ host_info \in HostInfos
    /\ host_stats = << >>
    /\ refreshed = << >>
    /\ init = InitLocals
    /\ reply = NoReply

NextDriver ==
    \/ Construct
    \/ HostChanges
    \/ UpdateHostStatus
    \/ GetAvailableResource
    \/ GetAvailableNodes
    \/ GetHostUptime
    \/ GetInfo
    \/ LegacyGetInfo
    \/ Destroy
    \/ PowerOff
    \/ PowerOn

SpecDriver == InitDriver /\ [][NextDriver]_vars

----------------------------------------------------------------------------
(* Properties of the readiness wait *)

Count(seq, op) == Cardinality({i \in DOMAIN seq : seq[i][1] = op})
Issued(s, op) == \E i \in DOMAIN s.calls : s.calls[i][1] = op
Succeeded(s, op) == \E i \in DOMAIN s.calls : s.calls[i] = <<op, "ok">>

(* The answers of the current tick: a vswitch mapping that is non-empty    *)
(* with no empty-string value, and nic_coupled true for every key of it.   *)
TickConverged(s) ==
    /\ s.switch_dict.ok
    /\ DOMAIN s.switch_dict.out # {}
    /\ \A k \in DOMAIN s.switch_dict.out : s.switch_dict.out[k] # ""
    /\ DOMAIN s.def_res = DOMAIN s.switch_dict.out
    /\ \A k \in DOMAIN s.def_res : s.def_res[k] = "coupled"

(* a tick of the wait has run to its end *)
TickEnded(s) == s.ticks >= 1 /\ s.pc \notin {"tick", "poll_def"}

(* C1: the wait ends successfully on a tick if and only if that tick's     *)
(* vswitch answer is a non-empty mapping without an empty-string value and *)
(* every key of it was reported nic_coupled; a tick that ended without     *)
(* success did not have such answers, so success comes on the first such   *)
(* tick and on no earlier one.                                             *)
C1_SuccessExactlyOnConvergedTick ==
    \A p \in Procs :
       LET s == spawn[p]
       IN  /\ (s.wait = "DONE") => (TickEnded(s) /\ TickConverged(s))
           /\ (TickEnded(s) /\ TickConverged(s)) => (s.wait = "DONE")
           /\ (s.pc = "sleep") => (s.wait = "POLL" /\ ~TickConverged(s))

(* the wait succeeded on a later tick, after a tick that did not converge *)
C1_Witness ==
    \E p \in Procs :
       spawn[p].wait = "DONE" /\ spawn[p].ticks >= 2
       /\ Cardinality(DOMAIN spawn[p].switch_dict.out) = 2

(* C2: with a non-zero zvm_reachable_timeout, a tick that starts after the *)
(* expiration fails the wait with ZVMNetworkError and issues no gateway    *)
(* query, whatever the state of the NICs.                                  *)
C2_DeadlineFailsBeforePoll ==
    \A p \in Procs :
       LET s == spawn[p]
       IN  (s.ticks >= 1 /\ s.pc # "tick" /\ zvm_reachable_timeout # 0
               /\ s.tick_now > s.expiration)
           => (s.wait = "FAILED" /\ s.orig = ZVMNetworkError /\ s.tick_calls = << >>)

(* the wait timed out while every NIC of the guest was resolved and coupled *)
C2_Witness ==
    \E p \in Procs :
       LET s == spawn[p]
       IN  /\ s.pc = "destroy" /\ s.wait = "FAILED" /\ s.orig = ZVMNetworkError
           /\ DOMAIN nic_vsw[s.name] = {"n1", "n2"}
           /\ \A k \in DOMAIN nic_vsw[s.name] :
                  nic_vsw[s.name][k] # "" /\ k \in nic_cpl[s.name]

(* C3: with zvm_reachable_timeout = 0 the wait never raises                *)
(* ZVMNetworkError.                                                        *)
C3_NoTimeoutWhenDisabled ==
    zvm_reachable_timeout = 0 =>
       \A p \in Procs :
          /\ spawn[p].orig.type # "ZVMNetworkError"
          /\ spawn[p].raised.type # "ZVMNetworkError"
          /\ spawn[p].wait # "FAILED"

(* with the deadline disabled a tick started after the expiration polled *)
C3_Witness ==
    \E p \in Procs :
       LET s == spawn[p]
       IN  /\ zvm_reachable_timeout = 0 /\ s.ticks >= 2
           /\ s.tick_now > s.expiration /\ s.tick_calls # << >> /\ s.wait = "POLL"

(* a query of the current tick failed at the gateway *)
TickQueryFailed(s) ==
    /\ s.wait # "none" /\ s.pc # "tick"
    /\ \E i \in DOMAIN s.tick_calls : s.tick_calls[i][2] = "fail"

(* C4: a gateway failure of the vswitch-info query or of a definition-info *)
(* query does not leave the wait: the tick ends, the wait stays in POLL    *)
(* with no exception pending, and the next step of the wait is the next    *)
(* tick.                                                                   *)
C4_PollFailureSwallowed ==
    [][\A p \in Procs :
          LET s == spawn[p]
              t == spawn'[p]
          IN  /\ TickQueryFailed(t) =>
                    (t.pc = "sleep" /\ t.wait = "POLL" /\ t.orig = NoError
                       /\ t.raised = NoError)
              /\ (TickQueryFailed(s) /\ t # s) =>
                    (t.pc = "tick" /\ t.wait = "POLL" /\ t.orig = NoError)]_vars

(* a definition-info query failed on a tick and the wait polled again *)
C4_Witness ==
    \E p \in Procs :
       LET s == spawn[p]
       IN  /\ s.ticks >= 2 /\ s.wait = "POLL" /\ s.pc = "sleep"
           /\ \E k \in DOMAIN s.def_res : s.def_res[k] = "failed"


----------------------------------------------------------------------------
(* Properties of spawn *)

(* C5: the wait of a spawn ends successfully only when every NIC of the    *)
(* spawn's network_info is a key of the vswitch mapping, resolved and      *)
(* reported coupled.                                                       *)
C5_AllExpectedNicsAttached ==
    \A p \in Procs :
       LET s == spawn[p]
       IN  (s.wait = "DONE") =>
              \A nic \in Range(s.network_info) :
                 /\ nic \in DOMAIN s.switch_dict.out
                 /\ s.switch_dict.out[nic] # ""
                 /\ nic \in DOMAIN s.def_res
                 /\ s.def_res[nic] = "coupled"

(* C6: a spawn whose instance name is longer than 8 characters raises      *)
(* InvalidInput with no call issued: no gateway call, no config drive, no  *)
(* poll, no guest_list or guest_delete; a name of exactly 8 characters     *)
(* passes the check.                                                       *)
C6_LongNameFailsFast ==
    \A p \in Procs :
       LET s == spawn[p]
       IN  /\ (s.pc # "idle" /\ Len(s.name) > 8) =>
                 /\ s.pc = "raised" /\ s.raised = InvalidInput
                 /\ s.calls = << >> /\ s.tick_calls = << >> /\ s.ticks = 0
                 /\ s.listed = "none" /\ s.orig = NoError
           /\ (s.pc # "idle" /\ Len(s.name) = 8) =>
                 /\ s.raised # InvalidInput
                 /\ s.pc = "raised" => s.calls # << >>

(* a spawn with a 9-character name was refused *)
C6_Witness ==
    \E p \in Procs :
       spawn[p].pc = "raised" /\ Len(spawn[p].name) = 9
       /\ spawn[p].raised = InvalidInput

(* the i-th step of a call log, the second image_query told from the first *)
StepName(c, i) ==
    IF c[i][1] = "image_query" /\ \E j \in 1..(i - 1) : c[j][1] = "image_query"
    THEN "image_query_again" ELSE c[i][1]

Rank(step) ==
    CASE step = "generate_configdrive" -> 0
      [] step = "image_query" -> 1
      [] step = "image_import" -> 2
      [] step = "image_query_again" -> 3
      [] step = "image_get_root_disk_size" -> 4
      [] step = "guest_create" -> 5
      [] step = "guest_deploy" -> 6
      [] step = "guest_create_network_interface" -> 7
      [] step = "guest_config_minidisks" -> 8
      [] step = "guest_start" -> 10
      [] step = "guest_list" -> 11
      [] step = "guest_delete" -> 12

(* the steps that must have returned successfully before the given one *)
Needs(s, step) ==
    LET net == IF s.network_info # << >>
               THEN {"guest_create_network_interface"} ELSE {}
        eph == IF s.ephemerals # << >> THEN {"guest_config_minidisks"} ELSE {}
    IN  CASE step = "guest_create" -> {"image_query_again"}
          [] step = "guest_deploy" -> {"image_query_again", "guest_create"}
          [] step = "guest_create_network_interface" ->
                {"image_query_again", "guest_create", "guest_deploy"}
          [] step = "guest_config_minidisks" ->
                {"image_query_again", "guest_create", "guest_deploy"} \cup net
          [] step = "wait" ->
                {"image_query_again", "guest_create", "guest_deploy"}
                   \cup net \cup eph
          [] step = "guest_start" ->
                {"image_query_again", "guest_create", "guest_deploy"}
                   \cup net \cup eph
          [] OTHER -> {}

ReturnedOk(c, step, before) ==
    \E j \in 1..(before - 1) : StepName(c, j) = step /\ c[j][2] = "ok"

(* C7: the remote steps of a spawn are issued in the order image query,    *)
(* import, second image query, disk size, guest_create, guest_deploy,      *)
(* network configuration, ephemeral disks, readiness wait, guest_start,    *)
(* each after the steps before it have returned successfully.              *)
C7_SpawnStepOrder ==
    \A p \in Procs :
       LET s == spawn[p]
           c == s.calls
           main == {i \in DOMAIN c : Rank(StepName(c, i)) <= 10}
       IN  /\ \A i, j \in main :
                 i < j => /\ Rank(StepName(c, i)) < Rank(StepName(c, j))
                          /\ c[i][2] = "ok" \/ StepName(c, i) = "image_query"
           /\ \A i \in main :
                 \A step \in Needs(s, StepName(c, i)) : ReturnedOk(c, step, i)
           /\ \A i \in DOMAIN c : i \notin main =>
                 \A j \in main : j < i
           /\ (s.wait # "none") =>
                 /\ \A step \in Needs(s, "wait") : ReturnedOk(c, step, Len(c) + 1)
                 /\ \A i \in main : Rank(StepName(c, i)) <= 8 \/ s.wait = "DONE"
           /\ Issued(s, "guest_start") => s.wait = "DONE"

(* a spawn that imported the image, configured NICs and ephemeral disks,   *)
(* waited over two ticks and started the guest                             *)
C7_Witness ==
    \E p \in Procs :
       LET s == spawn[p]
       IN  /\ s.pc = "done" /\ s.first_query = "404" /\ s.root_gb = 0
           /\ s.ephemerals # << >> /\ Len(s.network_info) = 2 /\ s.ticks >= 2
           /\ Len(s.calls) = 10

(* C8: after a first image_query that failed with 404, image_import is     *)
(* issued at most once by the spawn, and by the time the spawn goes on to  *)
(* the second image_query and to guest_create it has been issued exactly   *)
(* once and has returned successfully.                                     *)
C8_ImportOnceBeforeCreate ==
    \A p \in Procs :
       LET s == spawn[p]
           c == s.calls
       IN  (s.first_query = "404") =>
              /\ Count(c, "image_import") <= 1
              /\ (s.pc = "image_query_again" \/ Count(c, "image_query") >= 2
                     \/ Issued(s, "guest_create")) =>
                    /\ Count(c, "image_import") = 1
                    /\ \E i \in DOMAIN c :
                          /\ c[i] = <<"image_import", "ok">>
                          /\ \A j \in DOMAIN c :
                                c[j][1] = "guest_create" => i < j

(* the image was absent, was imported, and the guest was created *)
C8_Witness ==
    \E p \in Procs :
       /\ spawn[p].first_query = "404"
       /\ Succeeded(spawn[p], "image_import")
       /\ Succeeded(spawn[p], "guest_create")

(* a spawn that failed after its guest_create had succeeded *)
FailedAfterCreate(s) == s.pc = "raised" /\ Succeeded(s, "guest_create")

C10_OriginalErrorPropagates ==
    \A p \in Procs :
       (spawn[p].pc = "raised" /\ spawn[p].orig # NoError)
          => spawn[p].raised = spawn[p].orig

----------------------------------------------------------------------------
(* Properties of concurrent spawns *)

(* the spawns with an image_import in flight: inside the with block of     *)
(* driver.py:158-160                                                       *)
Importing == {p \in Procs : spawn[p].pc = "import"}

(* C11: among concurrent spawns on one driver at most one image_import is  *)
(* in flight at any time, and a spawn is importing only while it holds the *)
(* single permit of the semaphore, whichever images the spawns use.        *)
C11_OneImportInFlight ==
    /\ Cardinality(Importing) <= 1
    /\ imageop_semaphore = 1 - Cardinality(Importing)

(* one spawn is importing an image while the others, each needing an       *)
(* import of another image, wait for the permit                            *)
C11_Witness ==
    \E p \in Procs :
       /\ spawn[p].pc = "import"
       /\ \A q \in Procs \ {p} :
              spawn[q].pc = "acquire" /\ spawn[q].image # spawn[p].image

----------------------------------------------------------------------------
(* Properties of the rollback of spawn *)

(* C12: a spawn whose readiness wait failed with ZVMNetworkError has, when *)
(* the exception leaves spawn, no guest of its name left at the gateway,   *)
(* has issued no guest_start, and raises that ZVMNetworkError.             *)
C12_TimeoutRollsBack ==
    \A p \in Procs :
       LET s == spawn[p]
       IN  (s.pc = "raised" /\ s.orig = ZVMNetworkError) =>
              /\ s.name \notin guests
              /\ ~Issued(s, "guest_start")
              /\ s.raised = ZVMNetworkError

(* C13: with zvm_reachable_timeout = 0 a spawn that failed has issued no   *)
(* guest_delete.                                                           *)
C13_DebugKeepsGuest ==
    zvm_reachable_timeout = 0 =>
       \A p \in Procs :
          (spawn[p].pc = "raised") => ~Issued(spawn[p], "guest_delete")

----------------------------------------------------------------------------
(* Properties of the host queries *)

(* C14: the memory_mb_used that get_available_resource returns is the      *)
(* host_memory_total of the snapshot it obtained minus its                 *)
(* host_memory_free, exactly; it is negative when free exceeds total.      *)
C14_MemoryUsedIsDifference ==
    (reply.op = "get_available_resource" /\ reply.err = NoError) =>
       LET stats == reply.stats[1]
       IN  /\ reply.value.memory_mb_used =
                 stats.host_memory_total - stats.host_memory_free
           /\ reply.value.memory_mb = stats.host_memory_total
           /\ (stats.host_memory_free > stats.host_memory_total) =>
                 reply.value.memory_mb_used < 0

(* get_available_resource reported a negative memory_mb_used *)
C14_Witness ==
    /\ reply.op = "get_available_resource" /\ reply.err = NoError
    /\ reply.stats[1].host_memory_free > reply.stats[1].host_memory_total
    /\ reply.value.memory_mb_used < 0

----------------------------------------------------------------------------
(* Properties of the instance status query *)

(* the status query got a power token from the gateway *)
Answered(r) ==
    /\ r.op \in {"get_info", "legacy_get_info"}
    /\ r.calls[1][2] = "ok"

(* C15: mapping_power_stat never fails: get_info returns RUNNING for the   *)
(* token "on", SHUTDOWN for "off" and NOSTATE for every other token.       *)
C15_MappingPowerStatTotal ==
    (reply.op = "get_info" /\ Answered(reply)) =>
       /\ reply.err = NoError
       /\ reply.value = CASE reply.token = "on" -> "RUNNING"
                           [] reply.token = "off" -> "SHUTDOWN"
                           [] OTHER -> "NOSTATE"

(* get_info translated a token that is not in the table *)
C15_Witness ==
    /\ reply.op = "get_info" /\ Answered(reply)
    /\ reply.token \notin {"on", "off"}
    /\ reply.value = "NOSTATE"

(* C16: the status query reports PAUSED when the instance's previous power *)
(* state is PAUSED and the fresh state is RUNNING, and RUNNING when both   *)
(* are RUNNING.                                                            *)
C16_StickyPause ==
    (Answered(reply) /\ reply.err = NoError
        /\ mapping_power_stat(reply.token) = "RUNNING") =>
       /\ (reply.previous = "PAUSED") => reply.value = "PAUSED"
       /\ (reply.previous = "RUNNING") => reply.value = "RUNNING"

(* C17: whenever the fresh state is not RUNNING the status query reports   *)
(* the fresh state, whatever the previous power state of the instance.     *)
C17_OverrideOnlyOnRunning ==
    (Answered(reply) /\ reply.err = NoError
        /\ mapping_power_stat(reply.token) # "RUNNING") =>
       reply.value = mapping_power_stat(reply.token)

(* a paused instance whose guest is off was reported SHUTDOWN by           *)
(* _get_instance_info                                                      *)
C17_Witness ==
    /\ reply.op = "legacy_get_info" /\ Answered(reply)
    /\ reply.previous = "PAUSED" /\ reply.token = "off"
    /\ reply.value = "SHUTDOWN"

(* C18: get_info issues guest_get_power_state exactly once; a failure with *)
(* overallRC 404 leaves it as InstanceNotFound, a failure with another     *)
(* code as the gateway's ZVMSDKRequestFailed with that code.               *)
C18_GetInfoNotFound ==
    (reply.op = "get_info") =>
       /\ Len(reply.calls) = 1
       /\ reply.calls[1][1] = "guest_get_power_state"
       /\ (reply.rc = 0) => reply.err = NoError
       /\ (reply.rc = 404) => reply.err = InstanceNotFound
       /\ (reply.rc \notin {0, 404}) =>
             reply.err = ZVMSDKRequestFailed("guest_get_power_state", reply.rc)

(* get_info of a guest that is not defined raised InstanceNotFound *)
C18_Witness ==
    /\ reply.op = "get_info" /\ reply.name \notin guests
    /\ reply.rc = 404 /\ reply.err = InstanceNotFound

----------------------------------------------------------------------------
(* Properties of the cached host snapshot *)

(* C19: get_available_nodes and get_host_uptime answer from the list the   *)
(* latest successful update_host_status returned.                          *)
C19_CacheIsLatestRefresh ==
    /\ (reply.op = "get_available_nodes") =>
          reply.value = AvailableNodes(reply.stats)
    /\ (reply.op = "get_host_uptime" /\ reply.err = NoError) =>
          reply.value = reply.stats[1].ipl_time

(* a refresh of a constructed driver whose host_get_info failed *)
RefreshFailed(r) ==
    /\ r.op \in {"update_host_status", "get_available_resource"}
    /\ r.rc # 0

(* C20: on a constructed driver, update_host_status and                    *)
(* get_available_resource whose host_get_info fails raise that gateway     *)
(* failure after the one request, and _host_stats is left as it was.       *)
C20_RefreshFailurePropagates ==
    [][(RefreshFailed(reply') /\ reply' # reply) =>
          /\ reply'.err = ZVMSDKRequestFailed("host_get_info", reply'.rc)
          /\ reply'.calls = <<<<"host_get_info", "fail">>>>
          /\ host_stats' = host_stats]_vars

(* get_available_resource raised the gateway failure of host_get_info *)
C20_Witness ==
    /\ reply.op = "get_available_resource" /\ reply.rc # 0
    /\ reply.err.type = "ZVMSDKRequestFailed" /\ reply.err.op = "host_get_info"
    /\ host_stats # << >>

(* The entry points that guard one mutating request by _instance_exists *)
GuardedEntries == {"destroy", "power_off", "power_on"}

(* The request name an entry point may send *)
RequestOf(entry) == MutatingRequest(entry, "", 0, 0)[1]

(* C21: destroy, power_on and power_off send their mutating request        *)
(* (guest_delete(name), guest_start(name), guest_stop(name, timeout,       *)
(* retry_interval)) exactly once when guest_list holds the guest name, and *)
(* send no mutating request and raise no error when it does not.           *)
C21_GuardedMutation ==
    [][(reply' # reply /\ reply'.op \in GuardedEntries
           /\ reply'.calls[1] = <<"guest_list", "ok">>)
       => LET r == reply'
          IN  IF r.name \in guests
              THEN /\ Len(r.requests) = 1
                   /\ r.requests[1][1] = RequestOf(r.op)
                   /\ r.requests[1][2] = r.name
                   /\ Len(r.requests[1]) = (IF r.op = "power_off" THEN 4 ELSE 2)
                   /\ r.op = "power_off"
                         => <<r.requests[1][3], r.requests[1][4]>> \in StopArgs
                   /\ Len(r.calls) = 2 /\ r.calls[2][1] = RequestOf(r.op)
              ELSE /\ r.requests = << >>
                   /\ r.err = NoError
                   /\ Len(r.calls) = 1]_vars

C21_Witness ==
    /\ reply.op = "power_off"
    /\ reply.requests = <<<<"guest_stop", "test0001", 30, 10>>>>
    /\ reply.calls = <<<<"guest_list", "ok">>, <<"guest_stop", "ok">>>>
    /\ reply.err = NoError

(* The keys the current tick found not coupled *)
Uncoupled(s) == {k \in DOMAIN s.def_res : s.def_res[k] = "uncoupled"}

(* C22: within one poll tick the definition-info queries short-circuit:    *)
(* once a NIC was reported with nic_coupled false, that query is the last  *)
(* guest_get_definition_info of the tick (one query per key answered so    *)
(* far, one key not coupled, the loop left) and the wait stays in POLL.    *)
C22_ShortCircuitOnUncoupled ==
    LET s == spawn["s1"]
    IN  Uncoupled(s) # {} =>
           /\ Cardinality(Uncoupled(s)) = 1
           /\ s.pc \in {"sleep", "tick"}
           /\ s.wait = "POLL"
           /\ s.orig = NoError
           /\ Count(s.tick_calls, "guest_get_definition_info")
                 = Cardinality(DOMAIN s.def_res)
           /\ s.tick_calls[Len(s.tick_calls)]
                 = <<"guest_get_definition_info", "ok">>

C22_Witness ==
    LET s == spawn["s1"]
    IN  /\ s.pc = "sleep"
        /\ Cardinality(DOMAIN s.switch_dict.out) = 2
        /\ Cardinality(Uncoupled(s)) = 1
        /\ s.pending # {}
        /\ Count(s.tick_calls, "guest_get_definition_info") = 1

(* A vswitch mapping that is empty or holds an empty-string value *)
NotReady(switch_dict) ==
    DOMAIN switch_dict = {} \/ \E k \in DOMAIN switch_dict : switch_dict[k] = ""

(* C23: on a tick whose vswitch mapping is empty or contains an            *)
(* empty-string value the wait stays in POLL and no definition-info query  *)
(* is issued; while the mapping of the created guest is empty (it has been *)
(* empty on every tick, as for a guest with no NICs) the wait has not      *)
(* ended successfully: it ends only with the timeout error, which needs an *)
(* enabled deadline, and it stays in POLL when the deadline is disabled.   *)
C23_UnreadyMappingKeepsPolling ==
    LET s == spawn["s1"]
    IN  /\ (s.wait # "none" /\ s.switch_dict.ok /\ NotReady(s.switch_dict.out))
             => /\ s.wait = "POLL"
                /\ s.pc \in {"sleep", "tick"}
                /\ Count(s.tick_calls, "guest_get_definition_info") = 0
        /\ (s.wait # "none" /\ s.name \in guests
               /\ DOMAIN nic_vsw[s.name] = {})
             => /\ s.wait # "DONE"
                /\ s.wait = "FAILED"
                      => /\ zvm_reachable_timeout # 0
                         /\ s.orig = ZVMNetworkError
                         /\ s.tick_now > s.expiration
                /\ zvm_reachable_timeout = 0 => s.wait = "POLL"

C23_Witness ==
    LET s == spawn["s1"]
    IN  /\ s.wait = "FAILED"
        /\ s.network_info = << >>
        /\ s.name \in guests
        /\ DOMAIN nic_vsw[s.name] = {}
        /\ s.ticks >= 2
        /\ s.orig = ZVMNetworkError

(* C24: with the deadline enabled and the time advancing on every tick,    *)
(* the readiness wait always terminates, successfully or with the timeout  *)
(* error, whatever the gateway answers.                                    *)
C24_WaitTerminates ==
    (spawn["s1"].wait = "POLL" /\ zvm_reachable_timeout # 0)
       ~> (spawn["s1"].wait \in {"DONE", "FAILED"})

C24_Witness ==
    LET s == spawn["s1"]
    IN  /\ zvm_reachable_timeout # 0
        /\ s.wait = "FAILED"
        /\ s.ticks = 3
        /\ s.network_info = <<"n1", "n2">>
        /\ s.tick_now > s.expiration

(* the wait of s ended with the timeout error *)
TimedOut(s) == s.wait = "FAILED" /\ s.orig = ZVMNetworkError

(* C25: the timeout error is never raised on a tick whose start time is at *)
(* or before the expiration (the comparison is strict); so with a positive *)
(* timeout the first tick does not time out and issues the vswitch-info    *)
(* query.                                                                  *)
C25_NoTimeoutAtOrBeforeDeadline ==
    LET s == spawn["s1"]
    IN  /\ TimedOut(s) => s.tick_now > s.expiration
        /\ (zvm_reachable_timeout > 0 /\ s.ticks = 1)
              => /\ ~TimedOut(s)
                 /\ s.tick_calls # << >>
                 /\ s.tick_calls[1][1] = "guest_get_nic_vswitch_info"

(* a tick that started exactly at the expiration and polled *)
C25_Witness ==
    LET s == spawn["s1"]
    IN  /\ zvm_reachable_timeout > 0
        /\ s.ticks = 2 /\ s.pc # "tick"
        /\ s.tick_now = s.expiration
        /\ s.wait = "POLL"
        /\ s.tick_calls # << >>

(* C26: spawn issues guest_start only after the readiness wait ended       *)
(* successfully: never while a NIC of the last polled mapping is           *)
(* unresolved or not coupled, and never after the wait failed.             *)
C26_StartOnlyAfterWaitDone ==
    LET s == spawn["s1"]
    IN  (s.pc = "guest_start" \/ Issued(s, "guest_start"))
           => /\ s.wait = "DONE"
              /\ TickConverged(s)
              /\ NotReady(s.switch_dict.out) = FALSE
              /\ Uncoupled(s) = {}

C26_Witness ==
    LET s == spawn["s1"]
    IN  /\ Succeeded(s, "guest_start")
        /\ s.pc = "done"
        /\ s.ticks = 3
        /\ DOMAIN s.switch_dict.out = {"n1", "n2"}

(* C27: the size of the boot disk: when root_gb is 0 it is the answer of   *)
(* image_get_root_disk_size asked for the image name the second            *)
(* image_query resolved; when root_gb is not 0 no image_get_root_disk_size *)
(* is issued and the size is the literal '<root_gb>g'.                     *)
C27_BootDiskSize ==
    LET s == spawn["s1"]
    IN  /\ s.root_gb # 0 => ~Issued(s, "image_get_root_disk_size")
        /\ Issued(s, "image_get_root_disk_size")
              => /\ s.root_gb = 0
                 /\ s.size_query = s.spawn_image_name
                 /\ s.size_query = ImageName(s.image)
        /\ Issued(s, "guest_create")
              => /\ s.disk_list[1].is_boot_disk
                 /\ s.disk_list[1].size = s.root_disk_size
                 /\ IF s.root_gb = 0
                    THEN /\ Succeeded(s, "image_get_root_disk_size")
                         /\ s.root_disk_size = ImageRootDiskSize(s.size_query)
                    ELSE s.root_disk_size = ToString(s.root_gb) \o "g"

C27_Witness ==
    LET s == spawn["s1"]
    IN  /\ Succeeded(s, "guest_create")
        /\ s.root_gb = 0
        /\ s.image = "img1"
        /\ s.size_query = "img1-name"
        /\ s.disk_list[1] = [size |-> "3338", is_boot_disk |-> TRUE]

(* the position of the first call of op in the call log of s, 0 if none *)
IndexOf(s, op) ==
    IF Issued(s, op)
    THEN CHOOSE i \in DOMAIN s.calls :
            s.calls[i][1] = op /\ \A j \in 1..(i - 1) : s.calls[j][1] # op
    ELSE 0

(* C28: the disk list passed to guest_create is the boot disk followed by  *)
(* the ephemeral disks in the order given; guest_config_minidisks is       *)
(* issued if and only if the ephemeral list is not empty, after the        *)
(* network configuration and before the readiness wait.                    *)
C28_DiskListAndMinidisks ==
    LET s == spawn["s1"]
        n == Len(s.ephemerals)
    IN  /\ Issued(s, "guest_create")
              => /\ Len(s.disk_list) = 1 + n
                 /\ s.disk_list[1] = [size |-> s.root_disk_size,
                                      is_boot_disk |-> TRUE]
                 /\ \A i \in 1..n :
                       /\ s.disk_list[i + 1].size
                             = ToString(s.ephemerals[i].size) \o "g"
                       /\ s.ephemerals[i].guest_format # ""
                             => s.disk_list[i + 1].format
                                   = s.ephemerals[i].guest_format
        /\ Issued(s, "guest_config_minidisks")
              => /\ n > 0
                 /\ Count(s.calls, "guest_config_minidisks") = 1
                 /\ Succeeded(s, "guest_deploy")
                 /\ s.network_info # << >>
                       => /\ Succeeded(s, "guest_create_network_interface")
                          /\ IndexOf(s, "guest_create_network_interface")
                                < IndexOf(s, "guest_config_minidisks")
        /\ s.wait # "none"
              => /\ Issued(s, "guest_config_minidisks") <=> n > 0
                 /\ n > 0 => Succeeded(s, "guest_config_minidisks")

C28_Witness ==
    LET s == spawn["s1"]
    IN  /\ s.wait = "POLL"
        /\ s.network_info # << >>
        /\ Succeeded(s, "guest_config_minidisks")
        /\ s.disk_list = <<[size |-> "3g", is_boot_disk |-> TRUE],
                           [size |-> "1g", format |-> "ext3"],
                           [size |-> "2g", format |-> DEFAULT_EPH_DISK_FMT]>>

(* C29: image_import is invoked only when the first image_query failed     *)
(* with 404 or returned an empty result; a first image_query that failed   *)
(* with any other code aborts the spawn: nothing is imported, no guest is  *)
(* created, and the exception leaves through the compensating destroy.     *)
C29_ImportOnlyWhenAbsent ==
    LET s == spawn["s1"]
    IN  /\ (s.pc \in {"acquire", "import"} \/ Issued(s, "image_import"))
              => s.first_query \in {"404", "empty"}
        /\ s.first_query = "error"
              => /\ ~Issued(s, "image_import")
                 /\ ~Issued(s, "guest_create")
                 /\ Count(s.calls, "image_query") = 1
                 /\ \A i \in 3..Len(s.calls) :
                       s.calls[i][1] \in {"guest_list", "guest_delete"}
                 /\ s.pc \in {"destroy", "guest_delete", "raised"}
                 /\ s.orig = ZVMSDKRequestFailed("image_query", s.orig.rc)
                 /\ s.orig.rc \notin {0, NotFoundRC}
                 /\ s.pc = "raised" => Issued(s, "guest_list")

C29_Witness ==
    LET s == spawn["s1"]
    IN  /\ s.first_query = "error"
        /\ s.pc = "raised"
        /\ s.calls = <<<<"generate_configdrive", "ok">>,
                       <<"image_query", "fail">>, <<"guest_list", "ok">>>>
        /\ s.raised = ZVMSDKRequestFailed("image_query", 500)

(* the spawns that have completed an image_import of the image im *)
Imported(im) ==
    {p \in Procs : spawn[p].image = im /\ Succeeded(spawn[p], "image_import")}

(* C30: the import is single-flight: when two concurrent spawns use the    *)
(* same absent image, the image is imported at most once in total; the     *)
(* spawn that enters the guarded section after the import of the other     *)
(* completed does not import again.                                        *)
C30_SingleFlightImport ==
    \A im \in Images :
       /\ Cardinality(Imported(im)) <= 1
       /\ \A p \in Procs :
             (spawn[p].pc = "import" /\ spawn[p].image = im)
                => Imported(im) = {}

(* C31: a failing spawn deletes only a guest that it created: when the     *)
(* failure came before guest_create succeeded, no guest_delete is issued,  *)
(* also when guest_list holds a guest of the same name.                    *)
C31_DeleteOnlyOwnGuest ==
    LET s == spawn["s1"]
    IN  (s.pc = "guest_delete" \/ Issued(s, "guest_delete"))
           => Succeeded(s, "guest_create")

(* C32: the image-import permit is always returned: the semaphore is       *)
(* released when image_import fails and when it succeeds, so its count     *)
(* stays in {0, 1}, and every spawn waiting for the permit eventually      *)
(* acquires it.                                                            *)
C32_PermitAlwaysReturned ==
    /\ [](imageop_semaphore \in {0, 1})
    /\ \A p \in Procs :
          (spawn[p].pc = "acquire") ~> (spawn[p].pc = "import")

(* a spawn holds the permit after the import of the other spawn failed *)
C32_Witness ==
    /\ spawn["s2"].pc = "import"
    /\ imageop_semaphore = 0
    /\ \E i \in DOMAIN spawn["s1"].calls :
          spawn["s1"].calls[i] = <<"image_import", "fail">>

(* C33: for one guest at most one poll is in flight at a time: a tick of   *)
(* the readiness wait starts only after the previous tick of the same wait *)
(* has returned (the wait was just started, or the previous tick left its  *)
(* queries and the interval was slept), and no tick runs and no query is   *)
(* issued after the wait terminated, successfully or not.                  *)
C33_OnePollInFlight ==
    [][LET s == spawn["s1"]
           t == spawn'["s1"]
       IN  /\ t.ticks # s.ticks
                => /\ s.pc = "tick" /\ s.wait = "POLL"
                   /\ t.ticks = s.ticks + 1
           /\ (t.pc = "tick" /\ s.pc # "tick") => s.pc \in {"wait", "sleep"}
           /\ (s.pc = "poll_def" /\ t.tick_calls # s.tick_calls)
                => /\ t.ticks = s.ticks
                   /\ Len(t.tick_calls) = Len(s.tick_calls) + 1
           /\ s.wait \in {"DONE", "FAILED"}
                => /\ t.wait = s.wait /\ t.ticks = s.ticks
                   /\ t.tick_calls = s.tick_calls
                   /\ t.pc \notin {"tick", "poll_def", "sleep"}]_vars

(* the second tick of a wait is querying the NICs *)
C33_Witness ==
    LET s == spawn["s1"]
    IN  /\ s.ticks = 2 /\ s.pc = "poll_def" /\ s.wait = "POLL"
        /\ Count(s.tick_calls, "guest_get_definition_info") = 1

(* the keys update_host_status copies unchanged *)
CopiedKeys ==
    {"vcpus", "vcpus_used", "cpu_info", "disk_total", "disk_used",
     "disk_available", "hypervisor_type", "hypervisor_version",
     "hypervisor_hostname", "ipl_time"}

(* C34: the status translation is a total 1:1 copy: for every payload of   *)
(* host_get_info, update_host_status returns exactly one entry whose       *)
(* vcpus, vcpus_used, cpu_info, disk_total, disk_used, disk_available,     *)
(* hypervisor type, version and hostname and ipl_time equal the payload's, *)
(* whose host_memory_total is memory_mb, whose host_memory_free is         *)
(* memory_mb minus memory_mb_used and whose supported_instances is the     *)
(* same single triple for every payload; it fails only when the request    *)
(* fails.                                                                  *)
C34_StatusTranslation ==
    [][(reply' # reply /\ reply'.op = "update_host_status") =>
          LET r == reply'
          IN  IF r.rc = 0
              THEN /\ r.err = NoError
                   /\ Len(r.value) = 1
                   /\ \A k \in CopiedKeys : r.value[1][k] = host_info[k]
                   /\ r.value[1].host_memory_total = host_info.memory_mb
                   /\ r.value[1].host_memory_free
                         = host_info.memory_mb - host_info.memory_mb_used
                   /\ \A h \in HostInfos :
                         r.value[1].supported_instances
                            = HostData(h).supported_instances
                   /\ Len(r.value[1].supported_instances) = 3
              ELSE /\ r.err = ZVMSDKRequestFailed("host_get_info", r.rc)
                   /\ r.value = << >>]_vars

C34_Witness ==
    /\ reply.op = "update_host_status" /\ reply.err = NoError
    /\ Len(reply.value) = 1
    /\ reply.value[1].hypervisor_hostname = "None"
    /\ reply.value[1].host_memory_free = 5
    /\ reply.value[1].disk_used = 367263

(* the requests a tick of the readiness wait may send *)
WaitQueries == {"guest_get_nic_vswitch_info", "guest_get_definition_info"}

(* C35: the readiness wait is read-only: every step of it, from its start  *)
(* to its end, sends only guest_get_nic_vswitch_info and                   *)
(* guest_get_definition_info and leaves the guests of the gateway, its     *)
(* images, the NIC configuration and the cached host snapshot unchanged.   *)
C35_WaitIsReadOnly ==
    [][LET s == spawn["s1"]
           t == spawn'["s1"]
       IN  (s.pc \in {"wait", "tick", "poll_def", "sleep"} /\ t # s)
              => /\ guests' = guests /\ gw_images' = gw_images
                 /\ gw_nics' = gw_nics /\ nic_vsw' = nic_vsw
                 /\ nic_cpl' = nic_cpl
                 /\ host_stats' = host_stats
                 /\ t.calls = s.calls
                 /\ \A i \in DOMAIN t.tick_calls :
                       t.tick_calls[i][1] \in WaitQueries]_vars

(* a wait that ended after three ticks left the coupled NICs as they were *)
C35_Witness ==
    LET s == spawn["s1"]
    IN  /\ s.wait = "DONE" /\ s.pc = "guest_start" /\ s.ticks = 3
        /\ Len(s.tick_calls) = 3
        /\ nic_cpl[s.name] = {"n1", "n2"}
        /\ s.name \in guests

(* C36: the construction of the driver swallows every failure of the       *)
(* initial host-status refresh and retries; it completes if and only if a  *)
(* refresh succeeded, and once it has completed the cached list holds      *)
(* exactly one entry in every later state, so get_host_uptime never reads  *)
(* an empty cache.                                                         *)
C36_ConstructedCacheNonEmpty ==
    /\ [](/\ init.done <=> host_stats # << >>
          /\ init.done => Len(host_stats) = 1
          /\ ~init.done => reply = NoReply
          /\ reply.op = "get_host_uptime" => reply.err = NoError)
    /\ [][/\ (init'.done /\ ~init.done)
                => /\ host_stats' = <<HostData(host_info)>>
                   /\ host_stats = << >>
          /\ (~init'.done /\ init' # init)
                => /\ ~init.done
                   /\ Len(init'.slept) = Len(init.slept) + 1
                   /\ host_stats' = << >>
          /\ init.done => (init'.done /\ host_stats' = host_stats)]_vars

(* get_host_uptime answered from the cache after the host was re-IPLed *)
C36_Witness ==
    /\ init.done
    /\ reply.op = "get_host_uptime" /\ reply.err = NoError
    /\ Len(host_stats) = 1
    /\ reply.value = host_stats[1].ipl_time
    /\ host_info.ipl_time # host_stats[1].ipl_time

(* the interval slept after the k-th failed refresh of the construction *)
ExpectedSleep(k) ==
    IF k <= 5 THEN <<5, 10, 20, 30, 60>>[k] ELSE 60

(* C37: during the construction of the driver the sleeps after the failed  *)
(* refreshes follow the sequence 5, 10, 20, 30, 60 and stay at 60 for      *)
(* every further failure; the sequence never decreases and is never 0.     *)
C37_SleepSequence ==
    /\ \A k \in DOMAIN init.slept : init.slept[k] = ExpectedSleep(k)
    /\ \A k \in DOMAIN init.slept :
          /\ init.slept[k] > 0
          /\ k > 1 => init.slept[k - 1] <= init.slept[k]
    /\ init.slept # << >> => init.slp = init.slept[Len(init.slept)]

(* the sixth failure in a row slept 60 seconds again *)
C37_Witness ==
    /\ ~init.done
    /\ init.slept = <<5, 10, 20, 30, 60, 60>>
    /\ init.inc_slp = << >>

(* C38: the memory round trip: for every host_get_info payload the         *)
(* memory_mb_used that get_available_resource reports (the total minus the *)
(* free value update_host_status derived) is the memory_mb_used of the     *)
(* payload, and its memory_mb is the payload's memory_mb.                  *)
C38_MemoryRoundTrip ==
    [][(reply' # reply /\ reply'.op = "get_available_resource"
           /\ reply'.err = NoError)
       => /\ reply'.value.memory_mb_used = host_info.memory_mb_used
          /\ reply'.value.memory_mb = host_info.memory_mb]_vars

(* the round trip of a payload whose used memory exceeds its total *)
C38_Witness ==
    /\ reply.op = "get_available_resource" /\ reply.err = NoError
    /\ reply.value.memory_mb = 8
    /\ reply.value.memory_mb_used = 10
    /\ host_info.memory_mb_used = 10

====
